---- MODULE Spec2Model ----
(***************************************************************************)
(* Model of the host-side BLE communication core of tapir-rn:              *)
(*   - the frame encoder of BleService.doSendSerialData,                   *)
(*   - the write queue of BleService.sendSerialData / processWriteQueue,   *)
(*   - BleService.cleanup and the connection fields it resets,             *)
(*   - the receive path BleService.handleNotification.                     *)
(* JavaScript runs each handler to its next await without interruption, so *)
(* one action is the code between two suspension points.                   *)
(***************************************************************************)
EXTENDS Integers, Sequences, FiniteSets, Bags, TLC

(***************************************************************************)
(* Program constants                                                       *)
(***************************************************************************)
MAX_CHUNK_SIZE == 506
DEFAULT_MTU == 23
TARGET_MTU == 517
WRITE_TIMEOUT_MS == 5000
SCAN_TIMEOUT_MS == 10000
CATEGORY_ID == 31
COMPLETE == 0
FIRST == 1
CONTINUE == 2
LAST == 3
DISCARD == 49

(***************************************************************************)
(* Bounds of the model                                                     *)
(***************************************************************************)
\* number of send requests issued in one run
MaxSends == 3
\* number of send requests issued in one run that also steps through connect
\* calls
MaxLinkSends == 2
\* number of times the clock advances in one run
MaxTicks == 2
\* the codec inputs reach MaxChunks x MAX_CHUNK_SIZE bytes
MaxChunks == 10
\* number of DeviceStore.connect calls in one run
MaxConnects == 2
\* number of DeviceStore.disconnect calls the user makes in one run
MaxDisconnects == 1
\* number of DeviceStore.startScan calls in one run
MaxScans == 2
MaxMessages == 4
MaxCancels == 1
MaxSessions == 2
MaxFrames == 4

NULL == "null"
NoItem == [id |-> 0, len |-> 0, timestamp |-> 0]

\* payload lengths of the send requests: one Complete frame, First+Last,
\* and First+Continue+Last
SendLens == {5, MAX_CHUNK_SIZE + 1, 2 * MAX_CHUNK_SIZE + 10}
\* values device.mtu can hold after connectToDevice({requestMTU: TARGET_MTU})
MtuGrants == {DEFAULT_MTU, TARGET_MTU}
\* amounts of time that pass between two handlers
TickSteps == {1, WRITE_TIMEOUT_MS}
\* the amount of time by which the clock advances during a scan
ScanTick == SCAN_TIMEOUT_MS \div 2

VARIABLES
  device,             \* BleService.device: NULL or the connected device
  dataCharacteristic, \* BleService.dataCharacteristic: NULL or the data channel
  mtu,                \* BleService.mtu
  writeQueue,         \* BleService.writeQueue: sequence of WriteQueueItem
  isWriting,          \* BleService.isWriting
  workers,            \* suspended processWriteQueue invocations; wid is the
                      \* send request whose call started the invocation
  handle,             \* per send request: state of the promise it returned
  wire,               \* frames handed to writeWithoutResponse, in call order
  dequeued,           \* per send request: its age when it was shifted, or -1
  requests,           \* payload lengths of the send requests, in request order
  now,                \* Date.now()
  ticks,              \* number of times the clock has advanced
  encLen,             \* doSendSerialData: data.length of the call under way
  encOffset,          \* doSendSerialData: offset
  encIsFirst,         \* doSendSerialData: isFirst
  encPc,              \* doSendSerialData: "idle", "call" (about to be entered),
                      \* "run" (awaiting a write), "done" or "thrown"
  written,            \* the base64 strings passed to writeWithoutResponse
  notified,           \* how many of them have come back as notifications
  received,           \* the messages passed to onMessageCallback
  connectionState,    \* DeviceStore.connectionState
  connectedDeviceId,  \* DeviceStore.connectedDeviceId
  storeMtu,           \* DeviceStore.mtu
  storeError,         \* DeviceStore.error
  connPc,             \* where each DeviceStore.connect call is suspended
  discPc,             \* where each DeviceStore.disconnect call under way is suspended
  discFor,            \* who made it (0: the user; or the connect call, line 441)
                      \* and after how many connect calls
  retMtu,             \* the mtu BleService.connect returned to each call (line 193)
  connectResult,      \* outcome of the latest DeviceStore.connect call
  connects,           \* number of DeviceStore.connect calls made
  disconnects,        \* number of DeviceStore.disconnect calls made by the user
  overtaken,          \* the connect calls a user's disconnect completed under
  link,               \* the transport link: "up" or "down"
  listening,          \* the link under way has an onDisconnected listener (line 156)
  staleEvents,        \* disconnect events of cancelled links not yet delivered
  subscription,       \* the monitor call of startNotifications (line 463):
                      \* "none", "requested" or "failed"
  stepFailure,        \* the failure met by a step of the latest connect, or NULL
  scans,              \* the DeviceStore.startScan calls: where each is suspended,
                      \* and the timer of its BleService.startScan (line 88)
  scanCalls,          \* number of DeviceStore.startScan calls made
  scannedDevices,     \* DeviceStore.scannedDevices (its keys)
  nativeScan,         \* the call whose manager.startDeviceScan is running, or 0
  onScanResultCallback, \* BleService.onScanResultCallback: set (by the call) or 0
  voiceState,         \* VoiceService.state
  currentSession,     \* VoiceService.currentSession: id, the sequence numbers of
                      \* its packets, ended; or NoSession
  lastResult,         \* VoiceService.lastResult: the session it is of, or NoResult
  lastClipInfo,       \* VoiceService.lastClipInfo, or NoClipInfo
  sequenceGaps,       \* VoiceService.sequenceGaps
  expectedSequence,   \* VoiceService.expectedSequence
  pcmBuffer,          \* VoiceService.pcmBuffer (the length of each block)
  opusFrames,         \* VoiceService.opusFrames (its length)
  liveStats,          \* VoiceService.livePacketCount, liveBytesReceived and
                      \* liveSequenceGaps
  emitted,            \* bag of the types of the events passed to the listeners
  pipelines,          \* suspended processVoiceSession invocations: the session,
                      \* the call awaited and the local variable transcript
  finished,           \* number of processVoiceSession invocations that returned
  sessions,           \* number of sessions created
  voiceLog,           \* per session: speechToText calls, result events, responses,
                      \* entries to 'speaking', lastResult assignments
  cancelPc,           \* where the cancel call under way is suspended
  cancelTarget,       \* the session and state that call found, or NoTarget
  cancelled,          \* the sessions and states completed cancel calls found
  cancels,            \* number of cancel calls made
  rxLog,              \* bag of the types of the complete messages
                      \* handleNotification parsed
  voiceCalls,         \* bag of the types of the messages passed to VoiceService
                      \* handlers
  headphones          \* the imports of AudioRoutingService under way (line 549)
                      \* and the number of calls of setTapirHeadphonesConnected

queueVars == <<device, dataCharacteristic, mtu, writeQueue, isWriting, workers,
               handle, wire, dequeued, requests, now, ticks>>

codecVars == <<encLen, encOffset, encIsFirst, encPc, written, notified, received>>

storeVars == <<connectionState, connectedDeviceId, storeMtu, storeError>>

connVars == <<storeVars, connPc, discPc, discFor, retMtu, connectResult, connects,
              disconnects, overtaken, link, listening, staleEvents, subscription,
              stepFailure>>

scanCore == <<scans, scanCalls, scannedDevices>>

\* what BleService.stopScan assigns
stopScanVars == <<nativeScan, onScanResultCallback>>

scanVars == <<scanCore, stopScanVars>>

\* what the write queue's handlers never touch
voiceVars == <<voiceState, currentSession, lastResult, lastClipInfo, sequenceGaps,
               expectedSequence, pcmBuffer, opusFrames, liveStats, emitted, pipelines,
               finished, sessions, voiceLog,
               cancelPc, cancelTarget, cancelled, cancels, rxLog, voiceCalls,
               headphones>>

offQueue == <<codecVars, connVars, scanVars, voiceVars>>

offVoice == <<queueVars, connVars, scanVars, encLen, encOffset, encIsFirst, encPc,
              written, notified>>

vars == <<queueVars, codecVars, connVars, scanVars, voiceVars>>

Ids == 1..MaxSends

Min(a, b) == IF a < b THEN a ELSE b

(***************************************************************************)
(* doSendSerialData: the frames of a payload of length len                 *)
(***************************************************************************)
\* the single packet of lines 389-401
SingleFrame(len) ==
  [flag |-> COMPLETE, header |-> 4, offset |-> 0, size |-> len]

\* a variant of the fragment step whose last-fragment test is strict
Fragment_strictLast(len, offset, isFirst) ==
  LET remaining == len - offset
      isLast == remaining < MAX_CHUNK_SIZE
  IN  IF isFirst
        THEN [flag |-> FIRST, header |-> 4, offset |-> offset,
              size |-> Min(remaining, MAX_CHUNK_SIZE)]
        ELSE IF isLast
          THEN [flag |-> LAST, header |-> 2, offset |-> offset, size |-> remaining]
          ELSE [flag |-> CONTINUE, header |-> 2, offset |-> offset,
                size |-> MAX_CHUNK_SIZE]

\* one iteration of the while loop of lines 407-448
Fragment(len, offset, isFirst) ==
  LET remaining == len - offset
      isLast == remaining <= MAX_CHUNK_SIZE
  IN  IF isFirst
        THEN [flag |-> FIRST, header |-> 4, offset |-> offset,
              size |-> Min(remaining, MAX_CHUNK_SIZE)]
      ELSE IF isLast
        THEN [flag |-> LAST, header |-> 2, offset |-> offset, size |-> remaining]
      ELSE [flag |-> CONTINUE, header |-> 2, offset |-> offset,
            size |-> MAX_CHUNK_SIZE]

\* line 389: does the payload go out as one packet
IsSingle(len) == len <= MAX_CHUNK_SIZE

\* the while loop of lines 407-448 run from offset to its end
RECURSIVE FragmentsFrom(_, _, _)
FragmentsFrom(len, offset, isFirst) ==
  IF offset < len
    THEN LET f == Fragment(len, offset, isFirst)
         IN  <<f>> \o FragmentsFrom(len, offset + f.size, FALSE)
    ELSE <<>>

\* all the frames doSendSerialData writes for a payload when no write fails
DoSendFrames(len) ==
  IF IsSingle(len) THEN <<SingleFrame(len)>> ELSE FragmentsFrom(len, 0, TRUE)

(***************************************************************************)
(* The write queue                                                         *)
(***************************************************************************)
TimedOut_inclusive(item) == now - item.timestamp >= WRITE_TIMEOUT_MS

\* line 364
TimedOut(item) == now - item.timestamp > WRITE_TIMEOUT_MS

Settle(h, id, outcome) == IF h[id] = "pending" THEN [h EXCEPT ![id] = outcome] ELSE h

WhileQueue_breaks(q, h, d) ==
  IF Len(q) = 0
    THEN [queue |-> q, handle |-> h, dequeued |-> d, item |-> NoItem]
    ELSE LET item == Head(q)
             d2 == [d EXCEPT ![item.id] = now - item.timestamp]
         IN  IF TimedOut(item)
               THEN [queue |-> Tail(q), handle |-> Settle(h, item.id, "Write timeout"),
                     dequeued |-> d2, item |-> NoItem]
               ELSE [queue |-> Tail(q), handle |-> h, dequeued |-> d2, item |-> item]

\* the head of the while loop of processWriteQueue (lines 360-367): shift items,
\* rejecting the timed-out ones, until one is to be sent or the queue is empty
RECURSIVE WhileQueue(_, _, _)
WhileQueue(q, h, d) ==
  IF Len(q) = 0
    THEN [queue |-> q, handle |-> h, dequeued |-> d, item |-> NoItem]
    ELSE LET item == Head(q)
             d2 == [d EXCEPT ![item.id] = now - item.timestamp]
         IN  IF TimedOut(item)
               THEN WhileQueue(Tail(q), Settle(h, item.id, "Write timeout"), d2)
               ELSE [queue |-> Tail(q), handle |-> h, dequeued |-> d2, item |-> item]

\* the frame handed to the transport (lines 397-399, 444-446)
Written(wid, item, f) ==
  [id |-> item.id, flag |-> f.flag, header |-> f.header, offset |-> f.offset,
   size |-> f.size, st |-> "inflight", by |-> wid]

\* what a worker keeps of the item it shifted: the data to send and the promise
\* to settle (the timestamp is not read again after line 364)
Held(item) == [id |-> item.id, len |-> item.len]

\* the message of the Error thrown at line 385
NotConnected == "Not connected"

\* the message of the TypeError thrown when line 444 reads
\* this.dataCharacteristic.writeWithoutResponse on a null dataCharacteristic
NullCharacteristic == "Cannot read properties of null (reading 'writeWithoutResponse')"

\* doSendSerialData up to its first await (lines 383-399, 403-446): the worker
\* it leaves suspended (error is what it has thrown, if it has) and the frame
\* it hands to the transport
CallDoSend(wid, item, w) ==
  IF dataCharacteristic = NULL
    THEN [worker |-> [wid |-> wid, item |-> Held(item), pc |-> "thrown",
                      offset |-> 0, chunk |-> 0, widx |-> 0, error |-> NotConnected],
          wire |-> w]
  ELSE IF IsSingle(item.len)
    THEN [worker |-> [wid |-> wid, item |-> Held(item), pc |-> "single",
                      offset |-> 0, chunk |-> item.len, widx |-> Len(w) + 1,
                      error |-> NULL],
          wire |-> Append(w, Written(wid, item, SingleFrame(item.len)))]
  ELSE LET f == Fragment(item.len, 0, TRUE)
       IN  [worker |-> [wid |-> wid, item |-> Held(item), pc |-> "fragment",
                        offset |-> 0, chunk |-> f.size, widx |-> Len(w) + 1,
                        error |-> NULL],
            wire |-> Append(w, Written(wid, item, f))]

RunLoop_keepsWriting(wid, q, others, h, w, writing) ==
  LET r == WhileQueue(q, h, dequeued)
  IN  /\ writeQueue' = r.queue
      /\ handle' = r.handle
      /\ dequeued' = r.dequeued
      /\ isWriting' = writing
      /\ IF r.item = NoItem
           THEN /\ workers' = others
                /\ wire' = w
           ELSE LET c == CallDoSend(wid, r.item, w)
                IN  /\ workers' = others \cup {c.worker}
                    /\ wire' = c.wire

\* the while loop of processWriteQueue from its head (line 360) to the next
\* await or to line 377, run on queue q by worker wid; others are the workers
\* left suspended, writing is what isWriting holds while the loop goes on
RunLoop(wid, q, others, h, w, writing) ==
  LET r == WhileQueue(q, h, dequeued)
  IN  /\ writeQueue' = r.queue
      /\ handle' = r.handle
      /\ dequeued' = r.dequeued
      /\ IF r.item = NoItem
           THEN /\ workers' = others
                /\ wire' = w
                /\ isWriting' = FALSE
           ELSE LET c == CallDoSend(wid, r.item, w)
                IN  /\ workers' = others \cup {c.worker}
                    /\ wire' = c.wire
                    /\ isWriting' = writing

QueueInit ==
  /\ device = NULL
  /\ dataCharacteristic = NULL
  /\ mtu = DEFAULT_MTU
  /\ writeQueue = <<>>
  /\ isWriting = FALSE
  /\ workers = {}
  /\ handle = [i \in Ids |-> "unsent"]
  /\ wire = <<>>
  /\ dequeued = [i \in Ids |-> -1]
  /\ requests = <<>>
  /\ now = 0
  /\ ticks = 0

\* sendSerialData (lines 334-348) with the processWriteQueue call it makes
\* (lines 353-358)
Send(len) ==
  /\ UNCHANGED offQueue
  /\ Len(requests) < MaxSends
  /\ requests' = Append(requests, len)
  /\ LET item == [id |-> Len(requests) + 1, len |-> len, timestamp |-> now]
         q == Append(writeQueue, item)
         h == [handle EXCEPT ![item.id] = "pending"]
     IN  IF isWriting
           THEN /\ writeQueue' = q
                /\ handle' = h
                /\ UNCHANGED <<isWriting, workers, wire, dequeued>>
           ELSE RunLoop(item.id, q, workers, h, wire, TRUE)
  /\ UNCHANGED <<device, dataCharacteristic, mtu, now, ticks>>

Acked(w, widx, st) == [w EXCEPT ![widx].st = st]

\* line 371
Resolve(h, id) == Settle(h, id, "resolved")

Reject_resolves(h, id, error) == Settle(h, id, "resolved")

\* lines 372-374
Reject(h, id, error) == Settle(h, id, error)

WriteOk_firstOnly(w) ==
  /\ UNCHANGED offQueue
  /\ w \in workers
  /\ w.pc \in {"single", "fragment"}
  /\ RunLoop(w.wid, writeQueue, workers \ {w}, Resolve(handle, w.item.id),
             Acked(wire, w.widx, "ok"), isWriting)
  /\ UNCHANGED <<device, dataCharacteristic, mtu, requests, now, ticks>>

\* the transport completes the write a worker awaits (line 397 or 444):
\* doSendSerialData goes on to its next frame or returns, and the worker
\* resolves the item and goes round its loop
WriteOk(w) ==
  /\ UNCHANGED offQueue
  /\ w \in workers
  /\ w.pc \in {"single", "fragment"}
  /\ LET others == workers \ {w}
         wr == Acked(wire, w.widx, "ok")
         offset == w.offset + w.chunk
     IN  IF w.pc = "fragment" /\ offset < w.item.len
           THEN /\ IF dataCharacteristic = NULL
                     THEN /\ workers' = others \cup
                               {[w EXCEPT !.pc = "thrown", !.offset = offset,
                                          !.chunk = 0, !.widx = 0,
                                          !.error = NullCharacteristic]}
                          /\ wire' = wr
                     ELSE LET f == Fragment(w.item.len, offset, FALSE)
                          IN  /\ workers' = others \cup
                                    {[w EXCEPT !.offset = offset, !.chunk = f.size,
                                               !.widx = Len(wr) + 1]}
                              /\ wire' = Append(wr, Written(w.wid, w.item, f))
                /\ UNCHANGED <<writeQueue, handle, dequeued, isWriting>>
           ELSE RunLoop(w.wid, writeQueue, others, Resolve(handle, w.item.id), wr, isWriting)
  /\ UNCHANGED <<device, dataCharacteristic, mtu, requests, now, ticks>>

WriteFail_stops(w) ==
  /\ UNCHANGED offQueue
  /\ w \in workers
  /\ w.pc \in {"single", "fragment"}
  /\ workers' = workers \ {w}
  /\ handle' = Reject(handle, w.item.id, "Write failed")
  /\ wire' = Acked(wire, w.widx, "failed")
  /\ isWriting' = FALSE
  /\ UNCHANGED <<device, dataCharacteristic, mtu, writeQueue, dequeued, requests,
                 now, ticks>>

\* the transport fails the write a worker awaits: doSendSerialData throws, the
\* worker rejects the item (lines 372-374) and goes round its loop
WriteFail(w) ==
  /\ UNCHANGED offQueue
  /\ w \in workers
  /\ w.pc \in {"single", "fragment"}
  /\ RunLoop(w.wid, writeQueue, workers \ {w},
             Reject(handle, w.item.id, "Write failed"),
             Acked(wire, w.widx, "failed"), isWriting)
  /\ UNCHANGED <<device, dataCharacteristic, mtu, requests, now, ticks>>

\* doSendSerialData threw before a write (line 385, or line 444 on a null
\* characteristic): the worker rejects the item with the error thrown (lines
\* 372-374) and goes round its loop
Catch(w) ==
  /\ UNCHANGED offQueue
  /\ w \in workers
  /\ w.pc = "thrown"
  /\ RunLoop(w.wid, writeQueue, workers \ {w},
             Reject(handle, w.item.id, w.error),
             wire, isWriting)
  /\ UNCHANGED <<device, dataCharacteristic, mtu, requests, now, ticks>>

\* cleanup (lines 564-570), called by disconnect, by the onDisconnected
\* listener and by destroy
CleanupFields ==
  /\ device' = NULL
  /\ dataCharacteristic' = NULL
  /\ mtu' = DEFAULT_MTU
  /\ writeQueue' = <<>>
  /\ isWriting' = FALSE

\* destroy (lines 575-578): cleanup, and the manager is destroyed. No
\* listener is called and the store is not told: its state, the workers
\* suspended in an await and the promises of the items dropped from the queue
\* are left as they are.
Destroy ==
  /\ CleanupFields
  /\ UNCHANGED <<workers, handle, wire, dequeued, requests, now, ticks>>
  /\ UNCHANGED offQueue

\* time passes; the code reads the clock only to stamp an item and to compare
\* the stamp of a queued item with it, so only time that passes while an item
\* is queued is observable
Tick(d) ==
  /\ UNCHANGED offQueue
  /\ Len(writeQueue) > 0
  /\ ticks < MaxTicks
  /\ ticks' = ticks + 1
  /\ now' = now + d
  /\ UNCHANGED <<device, dataCharacteristic, mtu, writeQueue, isWriting, workers,
                 handle, wire, dequeued, requests>>

(***************************************************************************)
(* The codec: doSendSerialData frame by frame, and handleNotification      *)
(***************************************************************************)
\* sendDiscard (lines 286-292) through sendMessage (lines 238-245): the
\* serial data of a DISCARD message of len bytes in all; no bytes for len = 0
SerialData(len) == [i \in 1..len |-> IF i = 1 THEN DISCARD ELSE (i - 2) % 256]

\* lines 390-395 and 430-442: the packet of frame f of data
Packet(data, f) ==
  IF f.header = 4
    THEN <<CATEGORY_ID, f.flag, Len(data) % 256, (Len(data) \div 256) % 256>>
           \o SubSeq(data, f.offset + 1, f.offset + f.size)
    ELSE <<CATEGORY_ID, f.flag>> \o SubSeq(data, f.offset + 1, f.offset + f.size)

\* Buffer.from(packet).toString('base64') (lines 398, 445): the string as the
\* sequence of its symbols' values, 64 standing for the padding '='
ToBase64(bytes) ==
  LET n == Len(bytes)
      At(i) == IF i <= n THEN bytes[i] ELSE 0
  IN  [k \in 1..(4 * ((n + 2) \div 3)) |->
         LET g == 3 * ((k - 1) \div 4)
             pos == (k - 1) % 4
         IN  CASE pos = 0 -> At(g + 1) \div 4
               [] pos = 1 -> (At(g + 1) % 4) * 16 + At(g + 2) \div 16
               [] pos = 2 -> IF g + 2 > n THEN 64
                             ELSE (At(g + 2) % 16) * 4 + At(g + 3) \div 64
               [] pos = 3 -> IF g + 3 > n THEN 64 ELSE At(g + 3) % 64]

\* Buffer.from(base64Value, 'base64') (line 479)
FromBase64(str) ==
  LET m == Len(str)
      pads == Cardinality({k \in 1..m : str[k] = 64})
      Val(k) == IF str[k] = 64 THEN 0 ELSE str[k]
  IN  [j \in 1..(3 * (m \div 4) - pads) |->
         LET g == 4 * ((j - 1) \div 3)
             r == (j - 1) % 3
         IN  CASE r = 0 -> Val(g + 1) * 4 + Val(g + 2) \div 16
               [] r = 1 -> (Val(g + 2) % 16) * 16 + Val(g + 3) \div 4
               [] r = 2 -> (Val(g + 3) % 4) * 64 + Val(g + 4)]

VOICE_START == 96
VOICE_DATA == 97
VOICE_END == 98
AUDIO_HEADPHONES == 99
KEYPRESS == 16

\* handleVoiceMessage (lines 528-558): is the message taken by the voice path
HandleVoiceMessage_noEnd(msgType) ==
  msgType \in {VOICE_START, VOICE_DATA, AUDIO_HEADPHONES}

HandleVoiceMessage(msgType) ==
  msgType \in {VOICE_START, VOICE_DATA, VOICE_END, AUDIO_HEADPHONES}

\* handleNotification (lines 478-518): the messages passed to
\* onMessageCallback for one notification
HandleNotification(base64Value) ==
  LET value == FromBase64(base64Value)
  IN  IF Len(value) < 4 THEN <<>>
      ELSE LET flag == value[2]
               payload == SubSeq(value, 5, Len(value))
           IN  IF flag # COMPLETE THEN <<>>
               ELSE IF Len(payload) >= 1
                 THEN IF HandleVoiceMessage(payload[1]) THEN <<>>
                      ELSE <<[type |-> payload[1],
                              payload |-> SubSeq(payload, 2, Len(payload))]>>
               ELSE <<>>

\* payload lengths given to the encoder: around every multiple of the chunk
\* size up to MaxChunks chunks
CodecLens ==
  {len \in 0..(MaxChunks * MAX_CHUNK_SIZE) :
     len % MAX_CHUNK_SIZE \in {0, 1, 10, MAX_CHUNK_SIZE - 1}}

CodecIdle ==
  /\ encLen = 0
  /\ encOffset = 0
  /\ encIsFirst = TRUE
  /\ encPc = "idle"
  /\ written = <<>>
  /\ notified = 0
  /\ received = <<>>

\* doSendSerialData is about to be called with a payload
CodecInit ==
  /\ encLen \in CodecLens
  /\ encOffset = 0
  /\ encIsFirst = TRUE
  /\ encPc = "call"
  /\ written = <<>>
  /\ notified = 0
  /\ received = <<>>

\* doSendSerialData from its entry to its first await (lines 383-399 and
\* 403-444): it throws without a data channel, and otherwise hands its first
\* frame to the transport
EncodeCall ==
  /\ encPc = "call"
  /\ LET data == SerialData(encLen)
     IN  IF dataCharacteristic = NULL
           THEN /\ encPc' = "thrown"
                /\ UNCHANGED <<written, encIsFirst>>
         ELSE IF IsSingle(encLen)
           THEN /\ written' = Append(written, ToBase64(Packet(data, SingleFrame(encLen))))
                /\ encPc' = "run"
                /\ UNCHANGED encIsFirst
         ELSE /\ written' = Append(written,
                                   ToBase64(Packet(data, Fragment(encLen, 0, TRUE))))
              /\ encIsFirst' = FALSE
              /\ encPc' = "run"
  /\ UNCHANGED <<encLen, encOffset, notified, received>>
  /\ UNCHANGED <<queueVars, connVars, scanVars, voiceVars>>

\* the chunk size of the frame whose write doSendSerialData awaits (the local
\* chunkSize of lines 415-427)
ChunkInFlight == Fragment(encLen, encOffset, encOffset = 0).size

\* the write doSendSerialData awaits resolves: it returns after its single
\* packet (line 400); in the loop it adds the chunk to offset (line 446) and
\* hands the next frame to the transport, or returns when offset has reached
\* the length
EncodeFrame ==
  /\ encPc = "run"
  /\ LET data == SerialData(encLen)
         offset == encOffset + ChunkInFlight
     IN  IF IsSingle(encLen)
           THEN /\ encPc' = "done"
                /\ UNCHANGED <<written, encOffset>>
         ELSE /\ encOffset' = offset
              /\ IF offset < encLen
                   THEN IF dataCharacteristic = NULL
                          THEN /\ encPc' = "thrown"
                               /\ UNCHANGED written
                          ELSE /\ written' = Append(written,
                                    ToBase64(Packet(data, Fragment(encLen, offset, FALSE))))
                               /\ encPc' = "run"
                   ELSE /\ encPc' = "done"
                        /\ UNCHANGED written
  /\ UNCHANGED <<encLen, encIsFirst, notified, received>>
  /\ UNCHANGED <<queueVars, connVars, scanVars, voiceVars>>

\* the write doSendSerialData awaits is rejected: the call throws
EncodeWriteFails ==
  /\ encPc = "run"
  /\ encPc' = "thrown"
  /\ UNCHANGED <<encLen, encOffset, encIsFirst, written, notified, received>>
  /\ UNCHANGED <<queueVars, connVars, scanVars, voiceVars>>

\* the next written frame comes back in a notification (lines 463-472)
Notify ==
  /\ notified < Len(written)
  /\ notified' = notified + 1
  /\ received' = received \o HandleNotification(written[notified + 1])
  /\ UNCHANGED <<encLen, encOffset, encIsFirst, encPc, written>>
  /\ UNCHANGED <<queueVars, connVars, scanVars, voiceVars>>

(***************************************************************************)
(* The connection: DeviceStore.connect / disconnect over BleService        *)
(***************************************************************************)
\* every DeviceStore.connect call has its own position (connPc[i]) and its own
\* returned mtu (retMtu[i]); the calls share the fields of the store and of
\* BleService, and so do the DeviceStore.disconnect calls (discPc[j]).
\* StoreConnect and StoreDisconnect are the calls whenever they are made;
\* StoreConnectAlone and StoreDisconnectAlone are the calls of a user who
\* waits for the calls made before to settle before calling again. Disconnect
\* events, the transport's answers, sends and write completions come at any
\* time.
ConnIds == 1..MaxConnects

\* the connect calls under way
ConnectsUnderWay == {i \in ConnIds : connPc[i] # "idle"}

\* the DeviceStore.disconnect calls that can be under way at a time: those of
\* the user and those of the connect calls
DiscIds == 1..(MaxConnects + MaxDisconnects)

NoCaller == [by |-> 0, after |-> 0]

DisconnectsUnderWay == {j \in DiscIds : discPc[j] # "idle"}

\* the place a new disconnect call takes among them
NewDisconnect ==
  CHOOSE j \in DiscIds \ DisconnectsUnderWay :
    \A k \in DiscIds \ DisconnectsUnderWay : j <= k

ConnStates == {"DISCONNECTED", "SCANNING", "CONNECTING", "CONNECTED", "READY"}

sendVars == <<workers, handle, wire, dequeued, requests, now, ticks>>

ConnIdle ==
  /\ connectionState = "DISCONNECTED"
  /\ connectedDeviceId = NULL
  /\ storeMtu = 23
  /\ storeError = NULL
  /\ connPc = [i \in ConnIds |-> "idle"]
  /\ discPc = [j \in DiscIds |-> "idle"]
  /\ discFor = [j \in DiscIds |-> NoCaller]
  /\ retMtu = [i \in ConnIds |-> 0]
  /\ overtaken = {}
  /\ connectResult = "none"
  /\ connects = 0
  /\ disconnects = 0
  /\ link = "down"
  /\ listening = FALSE
  /\ staleEvents = 0
  /\ subscription = "none"
  /\ stepFailure = NULL

\* the service and the store after one DeviceStore.connect call in which every
\* step has succeeded (BleService.connect, lines 144-194, and lines 452-457 of
\* the store), nothing having been sent
Ready ==
  /\ device = "device"
  /\ dataCharacteristic = "data"
  /\ mtu \in MtuGrants
  /\ writeQueue = <<>>
  /\ isWriting = FALSE
  /\ workers = {}
  /\ handle = [i \in Ids |-> "unsent"]
  /\ wire = <<>>
  /\ dequeued = [i \in Ids |-> -1]
  /\ requests = <<>>
  /\ now = 0
  /\ ticks = 0
  /\ connectionState = "READY"
  /\ connectedDeviceId = "device"
  /\ storeMtu = mtu
  /\ storeError = NULL
  /\ connPc = [i \in ConnIds |-> "idle"]
  /\ discPc = [j \in DiscIds |-> "idle"]
  /\ discFor = [j \in DiscIds |-> NoCaller]
  /\ retMtu = [i \in ConnIds |-> IF i = 1 THEN mtu ELSE 0]
  /\ overtaken = {}
  /\ connectResult = "resolved"
  /\ connects = 1
  /\ disconnects = 0
  /\ link = "up"
  /\ listening = TRUE
  /\ staleEvents = 0
  /\ subscription = "requested"
  /\ stepFailure = NULL

\* DeviceStore.isConnected (lines 300-303)
IsConnected == connectionState \in {"CONNECTED", "READY"}

HandleDisconnect_keepsMtu ==
  /\ connectionState' = "DISCONNECTED"
  /\ connectedDeviceId' = NULL
  /\ UNCHANGED storeMtu

\* DeviceStore.handleDisconnect (lines 532-541)
HandleDisconnect ==
  /\ connectionState' = "DISCONNECTED"
  /\ connectedDeviceId' = NULL
  /\ storeMtu' = 23

\* BleService.stopScan (lines 136-139)
StopScan ==
  /\ nativeScan' = 0
  /\ onScanResultCallback' = 0

\* DeviceStore.connect, lines 444-450: CONNECTING, then BleService.connect up
\* to its await of connectToDevice (lines 146-153)
BeginConnect(i) ==
  /\ connectionState' = "CONNECTING"
  /\ storeError' = NULL
  /\ StopScan
  /\ connPc' = [connPc EXCEPT ![i] = "connectToDevice"]

\* BleService.disconnect (lines 199-208) up to its first suspension, called by
\* DeviceStore.disconnect (line 475); who is 0 for a call of the user and the
\* connect call otherwise
CallDisconnect(who) ==
  /\ discFor' = [discFor EXCEPT ![NewDisconnect] = [by |-> who, after |-> connects]]
  /\ IF device # NULL
       THEN /\ discPc' = [discPc EXCEPT ![NewDisconnect] = "cancel"]
            /\ UNCHANGED <<device, dataCharacteristic, mtu, writeQueue, isWriting>>
       ELSE /\ discPc' = [discPc EXCEPT ![NewDisconnect] = "cleaned"]
            /\ CleanupFields

\* DeviceStore.connect is called (lines 439-450)
StoreConnect ==
  /\ connects < MaxConnects
  /\ connects' = connects + 1
  /\ connectResult' = "pending"
  /\ stepFailure' = NULL
  /\ IF IsConnected
       THEN /\ CallDisconnect(connects + 1)
            /\ connPc' = [connPc EXCEPT ![connects + 1] = "disconnect"]
            /\ UNCHANGED <<connectionState, storeError, stopScanVars>>
       ELSE /\ BeginConnect(connects + 1)
            /\ UNCHANGED <<discPc, discFor, device, dataCharacteristic, mtu,
                           writeQueue, isWriting>>
  /\ subscription' = "none"
  /\ UNCHANGED <<connectedDeviceId, storeMtu, retMtu, disconnects, overtaken, link, listening,
                 staleEvents>>
  /\ UNCHANGED <<sendVars, codecVars, scanCore, voiceVars>>

\* DeviceStore.connect is called by a user who has waited for the calls made
\* before to settle
StoreConnectAlone ==
  /\ ConnectsUnderWay = {}
  /\ DisconnectsUnderWay = {}
  /\ StoreConnect

\* DeviceStore.disconnect is called by the user (lines 474-475)
StoreDisconnect ==
  /\ disconnects < MaxDisconnects
  /\ disconnects' = disconnects + 1
  /\ CallDisconnect(0)
  /\ UNCHANGED <<storeVars, connPc, retMtu, connectResult, connects, link, listening,
                 staleEvents, overtaken,
                 subscription, stepFailure>>
  /\ UNCHANGED <<sendVars, codecVars, scanVars, voiceVars>>

\* DeviceStore.disconnect is called by a user who has waited for the calls
\* made before to settle
StoreDisconnectAlone ==
  /\ ConnectsUnderWay = {}
  /\ DisconnectsUnderWay = {}
  /\ StoreDisconnect

\* cancelConnection settles (lines 202-205, its error ignored): cleanup, and
\* BleService.disconnect returns. The link is down; its listener may still be
\* told so later.
CancelSettles(j) ==
  /\ discPc[j] = "cancel"
  /\ discPc' = [discPc EXCEPT ![j] = "cleaned"]
  /\ CleanupFields
  /\ link' = "down"
  /\ listening' = FALSE
  /\ staleEvents' = IF listening THEN staleEvents + 1 ELSE staleEvents
  /\ UNCHANGED <<storeVars, connPc, discFor, retMtu, connectResult, connects,
                 disconnects, overtaken, subscription, stepFailure>>
  /\ UNCHANGED <<sendVars, codecVars, scanVars, voiceVars>>

\* DeviceStore.disconnect resumes after BleService.disconnect (line 476)
StoreDisconnectResume(j) ==
  /\ discPc[j] = "cleaned"
  /\ discPc' = [discPc EXCEPT ![j] = "idle"]
  /\ discFor' = [discFor EXCEPT ![j] = NoCaller]
  /\ connPc' = IF discFor[j].by = 0 THEN connPc
               ELSE [connPc EXCEPT ![discFor[j].by] = "disconnected"]
  /\ HandleDisconnect
  /\ overtaken' = IF discFor[j].by = 0
                    THEN overtaken \cup
                         {[call |-> i, connects |-> connects, scanCalls |-> scanCalls] :
                            i \in {c \in ConnectsUnderWay : c <= discFor[j].after}}
                    ELSE overtaken
  /\ UNCHANGED <<storeError, retMtu, connectResult, connects, disconnects,
                 link, listening, staleEvents,
                 subscription, stepFailure>>
  /\ UNCHANGED <<queueVars, codecVars, scanVars, voiceVars>>

\* DeviceStore.connect resumes after its disconnect (line 441)
ConnectAfterDisconnect(i) ==
  /\ connPc[i] = "disconnected"
  /\ BeginConnect(i)
  /\ UNCHANGED <<connectedDeviceId, storeMtu, discPc, discFor, retMtu, connectResult,
                 connects, disconnects, overtaken, link, listening, staleEvents,
                 subscription, stepFailure>>
  /\ UNCHANGED <<queueVars, codecVars, scanCore, voiceVars>>

\* BleService.connect throws; the catch of DeviceStore.connect (lines 462-468)
ConnectFails(i, reason) ==
  /\ connectionState' = "DISCONNECTED"
  /\ storeError' = reason
  /\ connPc' = [connPc EXCEPT ![i] = "idle"]
  /\ connectResult' = "rejected"
  /\ stepFailure' = reason
  /\ UNCHANGED <<connectedDeviceId, storeMtu, retMtu>>

\* connectToDevice settles (lines 150-164). The listener of a link an earlier
\* attempt left open stays registered (lines 156-160 never remove it) and is
\* told of the end of that link later.
ConnectToDeviceSettles(i, ok) ==
  /\ connPc[i] = "connectToDevice"
  /\ IF ok
       THEN /\ device' = "device"
            /\ link' = "up"
            /\ listening' = TRUE
            /\ staleEvents' = IF listening THEN staleEvents + 1 ELSE staleEvents
            /\ connPc' = [connPc EXCEPT ![i] = "discover"]
            /\ UNCHANGED <<storeVars, retMtu, connectResult, stepFailure>>
       ELSE /\ ConnectFails(i, "connectToDevice failed")
            /\ UNCHANGED <<device, link, listening, staleEvents>>
  /\ UNCHANGED <<dataCharacteristic, mtu, writeQueue, isWriting>>
  /\ UNCHANGED <<discPc, discFor, connects, disconnects, overtaken, subscription>>
  /\ UNCHANGED <<sendVars, codecVars, scanVars, voiceVars>>

\* discoverAllServicesAndCharacteristics settles (lines 164-173); granted is
\* device.mtu
DiscoverSettles(i, ok, granted) ==
  /\ connPc[i] = "discover"
  /\ IF ok /\ device # NULL
       THEN /\ mtu' = granted
            /\ connPc' = [connPc EXCEPT ![i] = "priority"]
            /\ UNCHANGED <<storeVars, retMtu, connectResult, stepFailure>>
       ELSE /\ ConnectFails(i, IF ok THEN "TypeError" ELSE "discover failed")
            /\ UNCHANGED mtu
  /\ UNCHANGED <<device, dataCharacteristic, writeQueue, isWriting>>
  /\ UNCHANGED <<discPc, discFor, connects, disconnects, overtaken, link, listening, staleEvents,
                 subscription>>
  /\ UNCHANGED <<sendVars, codecVars, scanVars, voiceVars>>

\* requestConnectionPriority settles (lines 173-178)
PrioritySettles(i, ok) ==
  /\ connPc[i] = "priority"
  /\ IF ok /\ device # NULL
       THEN /\ connPc' = [connPc EXCEPT ![i] = "characteristics"]
            /\ UNCHANGED <<storeVars, retMtu, connectResult, stepFailure>>
       ELSE ConnectFails(i, IF ok THEN "TypeError" ELSE "priority request failed")
  /\ UNCHANGED <<device, dataCharacteristic, mtu, writeQueue, isWriting>>
  /\ UNCHANGED <<discPc, discFor, connects, disconnects, overtaken, link, listening, staleEvents,
                 subscription>>
  /\ UNCHANGED <<sendVars, codecVars, scanVars, voiceVars>>

\* characteristicsForService settles (lines 176-190); found: the data
\* characteristic is among the characteristics. startNotifications (lines
\* 458-473) subscribes and BleService.connect awaits it.
CharacteristicsSettle(i, ok, found) ==
  /\ connPc[i] = "characteristics"
  /\ IF ok
       THEN IF found
              THEN /\ dataCharacteristic' = "data"
                   /\ subscription' = "requested"
                   /\ connPc' = [connPc EXCEPT ![i] = "startNotifications"]
                   /\ UNCHANGED <<storeVars, retMtu, connectResult, stepFailure>>
              ELSE /\ dataCharacteristic' = NULL
                   /\ ConnectFails(i, "Data characteristic not found")
                   /\ UNCHANGED subscription
       ELSE /\ ConnectFails(i, "characteristics failed")
            /\ UNCHANGED <<dataCharacteristic, subscription>>
  /\ UNCHANGED <<device, mtu, writeQueue, isWriting>>
  /\ UNCHANGED <<discPc, discFor, connects, disconnects, overtaken, link, listening, staleEvents>>
  /\ UNCHANGED <<sendVars, codecVars, scanVars, voiceVars>>

\* BleService.connect resumes after startNotifications and returns
\* {mtu: this.mtu} (lines 190-193)
ConnectReturns(i) ==
  /\ connPc[i] = "startNotifications"
  /\ connPc' = [connPc EXCEPT ![i] = "returned"]
  /\ retMtu' = [retMtu EXCEPT ![i] = mtu]
  /\ UNCHANGED <<storeVars, discPc, discFor, connectResult, connects, disconnects, overtaken,
                 link, listening, staleEvents,
                 subscription, stepFailure>>
  /\ UNCHANGED <<queueVars, codecVars, scanVars, voiceVars>>

\* DeviceStore.connect resumes after BleService.connect (lines 452-460)
StoreConnectResume(i) ==
  /\ connPc[i] = "returned"
  /\ connPc' = [connPc EXCEPT ![i] = "idle"]
  /\ connectionState' = "READY"
  /\ connectedDeviceId' = "device"
  /\ storeMtu' = retMtu[i]
  /\ connectResult' = "resolved"
  /\ UNCHANGED <<storeError, discPc, discFor, retMtu, connects, disconnects, overtaken, link,
                 listening, staleEvents,
                 subscription, stepFailure>>
  /\ UNCHANGED <<queueVars, codecVars, scanVars, voiceVars>>

\* the onDisconnected listener (lines 156-160): cleanup, then the store's
\* handleDisconnect through onDisconnectCallback
OnDisconnected ==
  /\ CleanupFields
  /\ HandleDisconnect
  /\ UNCHANGED <<storeError, connPc, discPc, discFor, retMtu, connectResult, connects,
                 disconnects, overtaken, subscription, stepFailure>>
  /\ UNCHANGED <<sendVars, codecVars, scanVars, voiceVars>>

\* the link drops by itself
LinkDrops ==
  /\ link = "up"
  /\ listening
  /\ link' = "down"
  /\ listening' = FALSE
  /\ UNCHANGED staleEvents
  /\ OnDisconnected

\* the listener of an earlier link (cancelled, or left open by an attempt that
\* failed) is told of its end
StaleEvent ==
  /\ staleEvents > 0
  /\ staleEvents' = staleEvents - 1
  /\ UNCHANGED <<link, listening>>
  /\ OnDisconnected

\* the monitor callback is called with an error (lines 463-467): the
\* subscription has failed, which is logged
MonitorError ==
  /\ subscription = "requested"
  /\ subscription' = "failed"
  /\ stepFailure' = "subscription failed"
  /\ UNCHANGED <<storeVars, connPc, discPc, discFor, retMtu, connectResult, connects,
                 disconnects, overtaken, link, listening, staleEvents>>
  /\ UNCHANGED <<queueVars, codecVars, scanVars, voiceVars>>

(***************************************************************************)
(* Scanning: DeviceStore.startScan / stopScan over BleService              *)
(***************************************************************************)
ScanIds == 1..MaxScans

NoScan == [pc |-> "none", timer |-> FALSE, due |-> 0]

ScanIdle ==
  /\ scans = [i \in ScanIds |-> NoScan]
  /\ scanCalls = 0
  /\ scannedDevices = {}
  /\ nativeScan = 0
  /\ onScanResultCallback = 0

\* what scanning never touches, the clock apart
offScan == <<device, dataCharacteristic, mtu, writeQueue, isWriting, workers, handle,
             wire, dequeued, requests, ticks, codecVars, voiceVars, connectedDeviceId, storeMtu,
             connPc, discPc, discFor, retMtu, connectResult, connects, disconnects,
             overtaken, link, listening, staleEvents, subscription, stepFailure>>

\* the finally of DeviceStore.startScan (lines 415-421)
ScanFinally ==
  connectionState' = IF connectionState = "SCANNING" THEN "DISCONNECTED"
                     ELSE connectionState

\* DeviceStore.startScan is called (lines 385-391)
StoreStartScan ==
  /\ scanCalls < MaxScans
  /\ scanCalls' = scanCalls + 1
  /\ scans' = [scans EXCEPT ![scanCalls + 1].pc =
                 IF connectionState # "DISCONNECTED" THEN "done" ELSE "permissions"]
  /\ UNCHANGED <<connectionState, storeError, scannedDevices, stopScanVars, now, offScan>>

\* requestBluetoothPermissions settles (lines 391-406), and BleService.startScan
\* runs to its await of manager.state() (lines 77-81)
PermissionsSettle(i, granted) ==
  /\ scans[i].pc = "permissions"
  /\ IF granted
       THEN /\ connectionState' = "SCANNING"
            /\ scannedDevices' = {}
            /\ storeError' = NULL
            /\ onScanResultCallback' = i
            /\ scans' = [scans EXCEPT ![i].pc = "state"]
       ELSE /\ storeError' = "Bluetooth permissions not granted"
            /\ scans' = [scans EXCEPT ![i].pc = "done"]
            /\ UNCHANGED <<connectionState, scannedDevices, onScanResultCallback>>
  /\ UNCHANGED <<scanCalls, nativeScan, now, offScan>>

\* manager.state() settles (lines 81-130): not powered on, BleService.startScan
\* throws and DeviceStore.startScan records the error (lines 411-421);
\* otherwise the timer is set and the device scan started
ManagerStateSettles(i, poweredOn) ==
  /\ scans[i].pc = "state"
  /\ IF poweredOn
       THEN /\ scans' = [scans EXCEPT ![i] =
                           [pc |-> "scanning", timer |-> TRUE,
                            due |-> now + SCAN_TIMEOUT_MS]]
            /\ nativeScan' = i
            /\ UNCHANGED <<connectionState, storeError>>
       ELSE /\ scans' = [scans EXCEPT ![i].pc = "done"]
            /\ storeError' = "Bluetooth is not ready"
            /\ ScanFinally
            /\ UNCHANGED nativeScan
  /\ UNCHANGED <<scanCalls, scannedDevices, onScanResultCallback, now, offScan>>

\* the scan listener is called with a Tapir device (lines 108-126, 406-410)
DeviceFound(i) ==
  /\ nativeScan = i
  /\ scannedDevices' = IF onScanResultCallback # 0
                          THEN scannedDevices \cup {"tapir"} ELSE scannedDevices
  /\ UNCHANGED <<connectionState, storeError, scans, scanCalls, stopScanVars, now,
                 offScan>>

\* the scan listener is called with an error (lines 101-106): the timer is
\* cleared, BleService.startScan rejects and DeviceStore.startScan records
\* the error (lines 411-421). Nothing stops the device scan: its listener
\* stays registered.
ScanError(i) ==
  /\ nativeScan = i
  /\ scans[i].pc = "scanning"
  /\ scans' = [scans EXCEPT ![i] = [pc |-> "done", timer |-> FALSE, due |-> 0]]
  /\ storeError' = "scan error"
  /\ ScanFinally
  /\ UNCHANGED <<scanCalls, scannedDevices, stopScanVars, now, offScan>>

\* the timer of a BleService.startScan fires (lines 88-92)
ScanTimeout(i) ==
  /\ scans[i].timer
  /\ now >= scans[i].due
  /\ StopScan
  /\ scans' = [scans EXCEPT ![i] = [pc |-> "resolved", timer |-> FALSE, due |-> 0]]
  /\ UNCHANGED <<connectionState, storeError, scanCalls, scannedDevices, now, offScan>>

\* DeviceStore.startScan resumes after BleService.startScan has resolved
\* (lines 406-421)
StoreScanResume(i) ==
  /\ scans[i].pc = "resolved"
  /\ scans' = [scans EXCEPT ![i].pc = "done"]
  /\ ScanFinally
  /\ UNCHANGED <<storeError, scanCalls, scannedDevices, stopScanVars, now, offScan>>

\* DeviceStore.stopScan (lines 427-434)
StoreStopScan ==
  /\ StopScan
  /\ ScanFinally
  /\ UNCHANGED <<storeError, scanCore, now, offScan>>

\* time passes, up to the moment the next timer is due
ScanClock ==
  /\ \E i \in ScanIds : scans[i].timer
  /\ \A i \in ScanIds : scans[i].timer => scans[i].due >= now + ScanTick
  /\ now' = now + ScanTick
  /\ UNCHANGED <<connectionState, storeError, scanVars, offScan>>

(***************************************************************************)
(* Receiving: handleNotification routing, and the VoiceService pipeline    *)
(***************************************************************************)
SessionIds == 1..MaxMessages

\* the payload of a VOICE_DATA message: [seq_hi, seq_lo, timestamp 4 bytes,
\* opus data]
VoiceData(sequence) ==
  <<(sequence \div 256) % 256, sequence % 256, 0, 0, 0, 0, 7>>

DataMessage(sequence) == [type |-> VOICE_DATA, payload |-> VoiceData(sequence)]

StartMessage == [type |-> VOICE_START, payload |-> <<>>]

\* the messages the device sends: type and payload
RxMessages ==
  {StartMessage,
   [type |-> VOICE_END, payload |-> <<>>],
   [type |-> VOICE_DATA, payload |-> <<0, 0, 0>>],
   [type |-> AUDIO_HEADPHONES, payload |-> <<1>>],
   [type |-> KEYPRESS, payload |-> <<0, 1>>]}
  \cup {DataMessage(s) : s \in {0, 1, 65535}}

\* the sequence numbers of the data frames fed to a listening session
FrameSequences == {0, 1, 2, 3, 4, 65535}

\* the notification value of a message sent in one Complete frame
Notification(msg) ==
  LET data == <<msg.type>> \o msg.payload
  IN  ToBase64(Packet(data, SingleFrame(Len(data))))

\* handleNotification, lines 478-502: the message parsed from a notification
ParseNotification(base64Value) ==
  LET value == FromBase64(base64Value)
  IN  IF Len(value) < 4 \/ value[2] # COMPLETE \/ Len(value) < 5 THEN <<>>
      ELSE <<[type |-> value[5], payload |-> SubSeq(value, 6, Len(value))]>>

\* the values that stand for null: no session has id 0
NoSession == [id |-> 0, packets |-> <<>>, ended |-> FALSE]
NoResult == [sid |-> 0]
NoClipInfo == [sid |-> 0, packetCount |-> 0, sequenceGaps |-> 0]
NoTarget == [sid |-> 0, from |-> "idle"]

\* handleNotification applied to the notification of each message: what it
\* parses, and what it passes to onMessageCallback
Parsed ==
  [msg \in RxMessages \cup {DataMessage(s) : s \in FrameSequences} |->
     ParseNotification(Notification(msg))]

Delivered ==
  [msg \in RxMessages \cup {DataMessage(s) : s \in FrameSequences} |->
     HandleNotification(Notification(msg))]

NoLog ==
  [stt |-> 0, result |-> 0, text |-> 0, response |-> 0, speaking |-> 0, stored |-> 0]

NoStats == [packetCount |-> 0, bytesReceived |-> 0, sequenceGaps |-> 0]

VoiceIdle ==
  /\ voiceState = "idle"
  /\ currentSession = NoSession
  /\ lastResult = NoResult
  /\ lastClipInfo = NoClipInfo
  /\ sequenceGaps = 0
  /\ expectedSequence = 0
  /\ pcmBuffer = <<>>
  /\ opusFrames = 0
  /\ liveStats = NoStats
  /\ emitted = EmptyBag
  /\ pipelines = {}
  /\ sessions = 0
  /\ finished = 0
  /\ voiceLog = [s \in SessionIds |-> NoLog]
  /\ cancelPc = "idle"
  /\ cancelTarget = NoTarget
  /\ cancelled = {}
  /\ cancels = 0
  /\ rxLog = EmptyBag
  /\ voiceCalls = EmptyBag
  /\ headphones = [pending |-> 0, calls |-> 0]

\* emit (the listeners are called with an event of the type)
Emit(type) == emitted' = emitted (+) SetToBag({type})

\* handleVoiceStart (lines 143-171); id stands for the identity of the session
\* object it creates
HandleVoiceStart ==
  /\ voiceState' = "listening"
  /\ sessions' = sessions + 1
  /\ currentSession' = [id |-> sessions + 1, packets |-> <<>>, ended |-> FALSE]
  /\ liveStats' = NoStats
  /\ pcmBuffer' = <<>>
  /\ opusFrames' = 0
  /\ expectedSequence' = 0
  /\ sequenceGaps' = 0
  /\ Emit("start")
  /\ UNCHANGED <<lastResult, lastClipInfo, pipelines, voiceLog>>

Abs_signed(n) == n

\* Math.abs (line 194)
Abs(n) == IF n < 0 THEN -n ELSE n

Decode_perByte(opusFrame) == Len(opusFrame)

\* the sample rate the decoder is constructed with (lines 56, 112)
SAMPLE_RATE == 16000

\* OpusDecoder.decode (lines 73-79): a block of silence of 20 ms, whatever the
\* frame; the block is modelled by its number of samples. It cannot throw.
Decode(opusFrame) == (SAMPLE_RATE * 20) \div 1000

HandleVoiceData_anyState(payload) ==
  IF currentSession = NoSession \/ Len(payload) < 6
    THEN UNCHANGED <<voiceState, currentSession, lastResult, lastClipInfo, sequenceGaps,
                     expectedSequence, pcmBuffer, opusFrames, liveStats, emitted,
                     pipelines, sessions, voiceLog>>
    ELSE /\ currentSession' = [currentSession EXCEPT
                                 !.packets = Append(@, payload[1] * 256 + payload[2])]
         /\ opusFrames' = opusFrames + 1
         /\ Emit("data")
         /\ UNCHANGED <<voiceState, lastResult, lastClipInfo, sequenceGaps,
                        expectedSequence, pcmBuffer, liveStats, pipelines, sessions,
                        voiceLog>>

\* handleVoiceData (lines 176-227); decoder.decode (line 220) always returns,
\* so the catch of line 222 is never entered
HandleVoiceData(payload) ==
  IF currentSession = NoSession \/ voiceState # "listening" \/ Len(payload) < 6
    THEN UNCHANGED <<voiceState, currentSession, lastResult, lastClipInfo, sequenceGaps,
                     expectedSequence, pcmBuffer, opusFrames, liveStats, emitted,
                     pipelines, sessions, voiceLog>>
    ELSE LET sequence == payload[1] * 256 + payload[2]
             opusData == SubSeq(payload, 7, Len(payload))
             gap == IF sequence # expectedSequence
                      THEN Abs(sequence - expectedSequence) ELSE 0
         IN  /\ sequenceGaps' = sequenceGaps + gap
             /\ expectedSequence' = (sequence + 1) % 65536
             /\ currentSession' = [currentSession EXCEPT
                                     !.packets = Append(@, sequence)]
             /\ opusFrames' = opusFrames + 1
             /\ liveStats' = [packetCount |-> liveStats.packetCount + 1,
                              bytesReceived |-> liveStats.bytesReceived + Len(opusData),
                              sequenceGaps |-> liveStats.sequenceGaps + gap]
             /\ pcmBuffer' = Append(pcmBuffer, Decode(opusData))
             /\ Emit("data")
             /\ UNCHANGED <<voiceState, lastResult, lastClipInfo, pipelines, sessions,
                            voiceLog>>

Logged(log, sid, what) == [log EXCEPT ![sid][what] = @ + 1]

\* handleVoiceEnd (lines 232-264) with processVoiceSession up to its call of
\* speechToText (lines 270-292)
HandleVoiceEnd ==
  IF currentSession = NoSession
    THEN UNCHANGED <<voiceState, currentSession, lastResult, lastClipInfo, sequenceGaps,
                     expectedSequence, pcmBuffer, opusFrames, liveStats, emitted,
                     pipelines, sessions, voiceLog>>
    ELSE /\ lastClipInfo' = [sid |-> currentSession.id,
                             packetCount |-> Len(currentSession.packets),
                             sequenceGaps |-> sequenceGaps]
         /\ currentSession' = [currentSession EXCEPT !.ended = TRUE]
         /\ voiceState' = "processing"
         /\ Emit("end")
         /\ pipelines' = pipelines \cup
                           {[pid |-> Cardinality(pipelines) + 1 + finished,
                             sid |-> currentSession.id, pc |-> "speechToText",
                             transcript |-> <<>>]}
         /\ voiceLog' = Logged(voiceLog, currentSession.id, "stt")
         /\ UNCHANGED <<lastResult, sequenceGaps, expectedSequence, pcmBuffer,
                        opusFrames, liveStats, sessions>>

\* handleNotification (lines 478-518) for the notification of a message, and
\* the handler it routes the message to
Handle(msg) ==
  /\ LET parsed == Parsed[msg]
     IN  IF parsed = <<>>
           THEN UNCHANGED <<rxLog, voiceCalls, headphones, received, voiceState,
                            currentSession, lastResult, lastClipInfo, sequenceGaps,
                            expectedSequence, pcmBuffer, opusFrames, liveStats, emitted,
                            pipelines, sessions, voiceLog>>
           ELSE LET m == parsed[1]
                IN  /\ rxLog' = rxLog (+) SetToBag({m.type})
                    /\ received' = received \o Delivered[msg]
                    /\ IF HandleVoiceMessage(m.type)
                         THEN CASE m.type = VOICE_START ->
                                     /\ HandleVoiceStart
                                     /\ voiceCalls' = voiceCalls (+) SetToBag({m.type})
                                     /\ UNCHANGED headphones
                                [] m.type = VOICE_DATA ->
                                     /\ HandleVoiceData(m.payload)
                                     /\ voiceCalls' = voiceCalls (+) SetToBag({m.type})
                                     /\ UNCHANGED headphones
                                [] m.type = VOICE_END ->
                                     /\ HandleVoiceEnd
                                     /\ voiceCalls' = voiceCalls (+) SetToBag({m.type})
                                     /\ UNCHANGED headphones
                                [] OTHER ->
                                     \* the import is started (line 549); the call
                                     \* is made when it has resolved
                                     /\ headphones' = [headphones EXCEPT !.pending = @ + 1]
                                     /\ UNCHANGED <<voiceCalls, voiceState, currentSession,
                                                    lastResult, lastClipInfo, sequenceGaps,
                                                    expectedSequence, pcmBuffer, opusFrames,
                                                    liveStats, emitted, pipelines,
                                                    sessions, voiceLog>>
                         ELSE UNCHANGED <<voiceCalls, headphones, voiceState,
                                          currentSession, lastResult, lastClipInfo,
                                          sequenceGaps, expectedSequence, pcmBuffer,
                                          opusFrames, liveStats, emitted, pipelines,
                                          sessions, voiceLog>>
  /\ UNCHANGED <<finished, cancelPc, cancelTarget, cancelled, cancels, offVoice>>

\* an import of AudioRoutingService settles (lines 549-551): resolved, the
\* service is told the headphone state; rejected, nothing is called
HeadphonesImportSettles(ok) ==
  /\ headphones.pending > 0
  /\ headphones' = [pending |-> headphones.pending - 1,
                    calls |-> IF ok THEN headphones.calls + 1 ELSE headphones.calls]
  /\ UNCHANGED <<rxLog, voiceCalls, received, voiceState, currentSession, lastResult,
                 lastClipInfo, sequenceGaps, expectedSequence, pcmBuffer, opusFrames,
                 liveStats, emitted, pipelines, sessions, voiceLog>>
  /\ UNCHANGED <<finished, cancelPc, cancelTarget, cancelled, cancels, offVoice>>

\* a notification with a message of the device arrives
Receive(msg) ==
  /\ BagCardinality(rxLog) < MaxMessages
  /\ Handle(msg)

\* a start message arrives
StartSession ==
  /\ sessions < MaxSessions
  /\ Handle(StartMessage)

\* a data frame arrives for the session that is listening
FeedFrame(sequence) ==
  /\ voiceState = "listening"
  /\ Len(currentSession.packets) < MaxFrames
  /\ Handle(DataMessage(sequence))

Finally_keepsState ==
  /\ currentSession' = NoSession
  /\ pcmBuffer' = <<>>
  /\ opusFrames' = 0
  /\ UNCHANGED voiceState

\* the finally of processVoiceSession (lines 319-327)
Finally ==
  /\ voiceState' = "idle"
  /\ currentSession' = NoSession
  /\ pcmBuffer' = <<>>
  /\ opusFrames' = 0

\* the code unit of '[', which String.prototype.includes looks for (line 299)
LeftBracket == 91

\* what speechToText may return (lines 333-384): a transcript (a string, here
\* the sequence of its UTF-16 code units), among them "hi", the empty one,
\* " \n", a blank one of tab, vertical tab, no-break space and line separator,
\* and the placeholders "[No API key - STT unavailable]" of lines 340 and 345
\* and "[STT error]" of line 382; or an exception, from its imports
Transcripts ==
  {<<104, 105>>, <<>>, <<32, 10>>, <<9, 11, 160, 8232>>,
   <<LeftBracket, 78, 111, 32, 65, 80, 73, 32, 107, 101, 121, 32, 45, 32, 83, 84, 84,
     32, 117, 110, 97, 118, 97, 105, 108, 97, 98, 108, 101, 93>>,
   <<LeftBracket, 83, 84, 84, 32, 101, 114, 114, 111, 114, 93>>}

SttOutcomes ==
  {[throws |-> TRUE, transcript |-> <<>>]}
    \cup {[throws |-> FALSE, transcript |-> t] : t \in Transcripts}

Meaningful_nonEmpty(transcript) == transcript # <<>>

\* the code units String.prototype.trim removes (line 299): the white space
\* of ECMAScript (tab, vertical tab, form feed, space, no-break space, U+FEFF
\* and the space separators U+1680, U+2000 to U+200A, U+202F, U+205F, U+3000)
\* and its line terminators (line feed, carriage return, U+2028, U+2029)
WhiteSpace ==
  {9, 10, 11, 12, 13, 32, 160, 5760, 8232, 8233, 8239, 8287, 12288, 65279}
    \cup (8192..8202)

\* the test of line 299: transcript && transcript.trim() &&
\* !transcript.includes('[')
Meaningful(transcript) ==
  /\ transcript # <<>>
  /\ \E i \in 1..Len(transcript) : transcript[i] \notin WhiteSpace
  /\ \A i \in 1..Len(transcript) : transcript[i] # LeftBracket

\* speechToText returns to processVoiceSession (lines 292-300)
SpeechToTextReturns(p, outcome) ==
  /\ p \in pipelines
  /\ p.pc = "speechToText"
  /\ IF ~outcome.throws /\ Meaningful(outcome.transcript)
       THEN /\ pipelines' = (pipelines \ {p}) \cup
                              {[p EXCEPT !.pc = "getAiResponse",
                                         !.transcript = outcome.transcript]}
            /\ voiceLog' = Logged(Logged(voiceLog, p.sid, "result"), p.sid, "text")
            /\ Emit("result")
            /\ UNCHANGED <<voiceState, currentSession, pcmBuffer, opusFrames, finished>>
       ELSE /\ pipelines' = pipelines \ {p}
            /\ finished' = finished + 1
            /\ voiceLog' = IF outcome.throws THEN voiceLog
                           ELSE Logged(voiceLog, p.sid, "result")
            /\ emitted' = IF outcome.throws
                            THEN emitted (+) SetToBag({"error"})
                            ELSE emitted (+) SetToBag({"result"})
            /\ Finally
  /\ UNCHANGED <<lastResult, lastClipInfo, sequenceGaps, expectedSequence, liveStats,
                 sessions>>
  /\ UNCHANGED <<rxLog, voiceCalls, headphones, received, cancelPc, cancelTarget,
                 cancelled, cancels, offVoice>>

\* getAiResponse returns to processVoiceSession (lines 300-310)
AiResponseReturns(p, ok) ==
  /\ p \in pipelines
  /\ p.pc = "getAiResponse"
  /\ IF ok
       THEN /\ pipelines' = (pipelines \ {p}) \cup {[p EXCEPT !.pc = "speakResponse"]}
            /\ voiceLog' = Logged(Logged(voiceLog, p.sid, "response"), p.sid, "speaking")
            /\ voiceState' = "speaking"
            /\ UNCHANGED <<currentSession, pcmBuffer, opusFrames, finished, emitted>>
       ELSE /\ pipelines' = pipelines \ {p}
            /\ finished' = finished + 1
            /\ Emit("error")
            /\ Finally
            /\ UNCHANGED voiceLog
  /\ UNCHANGED <<lastResult, lastClipInfo, sequenceGaps, expectedSequence, liveStats,
                 sessions>>
  /\ UNCHANGED <<rxLog, voiceCalls, headphones, received, cancelPc, cancelTarget,
                 cancelled, cancels, offVoice>>

\* speakResponse returns to processVoiceSession (lines 310-327)
SpeakResponseReturns(p, ok) ==
  /\ p \in pipelines
  /\ p.pc = "speakResponse"
  /\ pipelines' = pipelines \ {p}
  /\ finished' = finished + 1
  /\ IF ok
       THEN /\ lastResult' = [sid |-> p.sid]
            /\ voiceLog' = Logged(voiceLog, p.sid, "stored")
            /\ UNCHANGED emitted
       ELSE /\ Emit("error")
            /\ UNCHANGED <<lastResult, voiceLog>>
  /\ Finally
  /\ UNCHANGED <<lastClipInfo, sequenceGaps, expectedSequence, liveStats, sessions>>
  /\ UNCHANGED <<rxLog, voiceCalls, headphones, received, cancelPc, cancelTarget,
                 cancelled, cancels, offVoice>>

\* cancel is called (lines 548-555)
CallCancel ==
  /\ cancelPc = "idle"
  /\ cancels < MaxCancels
  /\ cancels' = cancels + 1
  /\ cancelPc' = "stopping"
  /\ cancelTarget' = IF currentSession = NoSession THEN NoTarget
                     ELSE [sid |-> currentSession.id, from |-> voiceState]
  /\ UNCHANGED <<voiceState, currentSession, lastResult, lastClipInfo, sequenceGaps,
                 expectedSequence, pcmBuffer, opusFrames, liveStats, emitted, pipelines,
                 sessions, voiceLog, finished>>
  /\ UNCHANGED <<rxLog, voiceCalls, headphones, received, cancelled, offVoice>>

\* cancel resumes after Speech.stop (lines 557-563)
CancelResumes ==
  /\ cancelPc = "stopping"
  /\ cancelPc' = "idle"
  /\ cancelled' = IF cancelTarget = NoTarget THEN cancelled ELSE cancelled \cup {cancelTarget}
  /\ voiceState' = "idle"
  /\ currentSession' = NoSession
  /\ pcmBuffer' = <<>>
  /\ opusFrames' = 0
  /\ Emit("end")
  /\ UNCHANGED <<lastResult, lastClipInfo, sequenceGaps, expectedSequence, liveStats,
                 pipelines, sessions, voiceLog, finished>>
  /\ UNCHANGED <<rxLog, voiceCalls, headphones, received, cancelTarget, cancels, offVoice>>

ConnSendLens == {5, MAX_CHUNK_SIZE + 1}

Init == QueueInit /\ CodecIdle /\ ConnIdle /\ ScanIdle /\ VoiceIdle


\* doSendSerialData is called on a connected service
InitCodec == Ready /\ CodecInit /\ ScanIdle /\ VoiceIdle

InitConn == QueueInit /\ CodecIdle /\ ConnIdle /\ ScanIdle /\ VoiceIdle

\* the steps of the connect calls under way and of the disconnect under way
CallSteps ==
  \/ \E j \in DiscIds : CancelSettles(j)
  \/ \E j \in DiscIds : StoreDisconnectResume(j)
  \/ \E i \in ConnIds : ConnectAfterDisconnect(i)
  \/ \E i \in ConnIds, ok \in BOOLEAN : ConnectToDeviceSettles(i, ok)
  \/ \E i \in ConnIds, ok \in BOOLEAN, granted \in MtuGrants : DiscoverSettles(i, ok, granted)
  \/ \E i \in ConnIds, ok \in BOOLEAN : PrioritySettles(i, ok)
  \/ \E i \in ConnIds, ok \in BOOLEAN, found \in BOOLEAN : CharacteristicsSettle(i, ok, found)
  \/ \E i \in ConnIds : ConnectReturns(i)
  \/ \E i \in ConnIds : StoreConnectResume(i)

\* the steps of DeviceStore.connect calls made one after the other
ConnectSteps ==
  \/ StoreConnectAlone
  \/ CallSteps

NextConn ==
  \/ ConnectSteps
  \/ StoreDisconnectAlone
  \/ LinkDrops
  \/ StaleEvent
  \/ MonitorError
  \/ Destroy
  \/ \E len \in ConnSendLens : Len(requests) < MaxLinkSends /\ Send(len)
  \/ \E w \in workers : WriteOk(w)
  \/ \E w \in workers : Catch(w)

SpecConn == InitConn /\ [][NextConn]_vars

\* the write queue over the connection: sends, the transport's answers and the
\* clock, with the steps of connect and disconnect calls and the ends of links
Next ==
  \/ \E len \in SendLens : Len(requests) < MaxLinkSends /\ Send(len)
  \/ \E w \in workers : WriteOk(w)
  \/ \E w \in workers : WriteFail(w)
  \/ \E w \in workers : Catch(w)
  \/ \E d \in TickSteps : Tick(d)
  \/ ConnectSteps
  \/ StoreDisconnectAlone
  \/ LinkDrops
  \/ StaleEvent
  \/ Destroy

Spec == Init /\ [][Next]_vars

\* connecting and disconnecting alone, with nothing being sent
NextLink ==
  \/ ConnectSteps
  \/ StoreDisconnectAlone
  \/ LinkDrops
  \/ StaleEvent
  \/ MonitorError
  \/ Destroy

\* the write queue of a connected service: sends, the transport's answers
\* and the clock, with the link dropping and destroy
InitQueue == Ready /\ CodecIdle /\ ScanIdle /\ VoiceIdle

NextQueue ==
  \/ \E len \in SendLens : Send(len)
  \/ \E w \in workers : WriteOk(w)
  \/ \E w \in workers : WriteFail(w)
  \/ \E w \in workers : Catch(w)
  \/ \E d \in TickSteps : Tick(d)
  \/ LinkDrops
  \/ Destroy

SpecQueue == InitQueue /\ [][NextQueue]_vars

SpecLink == InitConn /\ [][NextLink]_vars

\* connect and disconnect called at any time, also while a connect call is
\* under way
NextRace ==
  \/ StoreConnect
  \/ StoreDisconnect
  \/ CallSteps
  \/ LinkDrops
  \/ StaleEvent
  \/ Destroy

SpecRace == InitConn /\ [][NextRace]_vars

ScanSteps ==
  \/ StoreStartScan
  \/ \E i \in ScanIds, granted \in BOOLEAN : PermissionsSettle(i, granted)
  \/ \E i \in ScanIds, poweredOn \in BOOLEAN : ManagerStateSettles(i, poweredOn)
  \/ \E i \in ScanIds : DeviceFound(i)
  \/ \E i \in ScanIds : ScanError(i)
  \/ \E i \in ScanIds : ScanTimeout(i)
  \/ \E i \in ScanIds : StoreScanResume(i)
  \/ StoreStopScan

NextScan ==
  \/ ScanSteps
  \/ ScanClock
  \/ ConnectSteps
  \/ LinkDrops
  \/ Destroy

\* every call of the platform returns, timers fire when due, and time passes
ScanFairness ==
  /\ WF_vars(\E i \in ScanIds, granted \in BOOLEAN : PermissionsSettle(i, granted))
  /\ WF_vars(\E i \in ScanIds, poweredOn \in BOOLEAN : ManagerStateSettles(i, poweredOn))
  /\ WF_vars(\E i \in ScanIds : ScanTimeout(i))
  /\ WF_vars(\E i \in ScanIds : StoreScanResume(i))
  /\ WF_vars(ScanClock)

SpecScan == InitConn /\ [][NextScan]_vars /\ ScanFairness

NextCodec == EncodeCall \/ EncodeFrame \/ EncodeWriteFails \/ Notify \/ Destroy

SpecCodec == InitCodec /\ [][NextCodec]_vars

PipelineSteps ==
  \/ \E p \in pipelines, outcome \in SttOutcomes : SpeechToTextReturns(p, outcome)
  \/ \E p \in pipelines, ok \in BOOLEAN : AiResponseReturns(p, ok)
  \/ \E p \in pipelines, ok \in BOOLEAN : SpeakResponseReturns(p, ok)

NextVoice ==
  \/ \E msg \in RxMessages : Receive(msg)
  \/ \E ok \in BOOLEAN : HeadphonesImportSettles(ok)
  \/ PipelineSteps
  \/ CallCancel
  \/ CancelResumes
  \/ Destroy

\* every call of a collaborator returns or throws, and Speech.stop settles
VoiceFairness == WF_vars(PipelineSteps) /\ WF_vars(CancelResumes)

SpecVoice == InitConn /\ [][NextVoice]_vars /\ VoiceFairness

\* data frames fed to listening sessions
NextFrames ==
  \/ StartSession
  \/ \E sequence \in FrameSequences : FeedFrame(sequence)
  \/ Destroy

SpecFrames == InitConn /\ [][NextFrames]_vars

(***************************************************************************)
(* Claims about the write queue                                            *)
(***************************************************************************)
InFlight == {w \in workers : w.pc \in {"single", "fragment"}}

\* C1: at every moment at most one processWriteQueue loop is running, so that
\* at most one transport write is in flight, whatever the interleaving of
\* sends, write completions, cleanups and reconnects. (Two writes in flight are
\* two running loops; the loops that wait to report "Not connected" are left
\* out of the count.)
C1_SingleWorker == Cardinality(InFlight) <= 1

\* C2: the frames handed to the transport appear payload by payload in the
\* order of the send requests: no frame of an earlier request follows a frame
\* of a later one.
C2_SubmissionOrder ==
  \A i, j \in 1..Len(wire) : i < j => wire[i].id <= wire[j].id

Sent == 1..Len(requests)
Rejected == {"Write timeout", "Write failed", NotConnected, NullCharacteristic}
Queued(i) == \E k \in 1..Len(writeQueue) : writeQueue[k].id = i
HeldByWorker(i) == \E w \in workers : w.item.id = i
FramesOf(i) == SelectSeq(wire, LAMBDA f : f.id = i)
FramesBy(wid) == SelectSeq(wire, LAMBDA f : f.by = wid)

\* C3: when the queue is cancelled by a cleanup, every write still pending in
\* it is failed: a handle that is still pending belongs to a write that is
\* still queued or still being sent, never to a discarded one.
C3_NoSilentDiscard ==
  \A i \in Sent : handle[i] = "pending" => Queued(i) \/ HeldByWorker(i)

\* C4: an item that has waited more than WRITE_TIMEOUT_MS when the worker
\* shifts it is rejected with "Write timeout" and none of its frames is ever
\* written; the age that decides is the age at that moment, so an item
\* shifted at an age of at most WRITE_TIMEOUT_MS is not timed out.
C4_TimeoutAtDequeue ==
  \A i \in Sent :
    /\ dequeued[i] > WRITE_TIMEOUT_MS =>
         handle[i] = "Write timeout" /\ FramesOf(i) = <<>>
    /\ handle[i] = "Write timeout" => dequeued[i] > WRITE_TIMEOUT_MS

\* a write waited past the timeout behind another one and was rejected
C4_Witness ==
  \E i \in Sent : dequeued[i] > WRITE_TIMEOUT_MS /\ handle[i] = "Write timeout"

SameFrame(w, f) ==
  /\ w.flag = f.flag
  /\ w.header = f.header
  /\ w.offset = f.offset
  /\ w.size = f.size

\* C5: a handle is resolved only when every frame of its payload has been
\* written and acknowledged, in order; a payload one of whose frame writes
\* failed has its handle rejected.
C5_ResolvedMeansWritten ==
  \A i \in Sent :
    /\ handle[i] = "resolved" =>
         LET S == FramesOf(i)
             F == DoSendFrames(requests[i])
         IN  /\ Len(S) = Len(F)
             /\ \A k \in 1..Len(S) : SameFrame(S[k], F[k]) /\ S[k].st = "ok"
    /\ (\E k \in 1..Len(wire) : wire[k].id = i /\ wire[k].st = "failed") =>
         handle[i] = "Write failed"

\* a fragmented payload was resolved and another payload failed on a write
C5_Witness ==
  /\ \E i \in Sent : handle[i] = "resolved" /\ requests[i] > 2 * MAX_CHUNK_SIZE
  /\ \E i \in Sent : handle[i] = "Write failed"

\* the frames of a worker, two by two
Pairs(S) == {k \in 1..Len(S) : k < Len(S)}
Continues(a, b) ==
  /\ a.flag \in {FIRST, CONTINUE}
  /\ b.flag \in {CONTINUE, LAST}
  /\ b.offset = a.offset + a.size

\* C6 as claimed: the frames a worker writes for one payload are a complete
\* sequence (Complete, or First, Continue..., Last) before it writes a frame of
\* its next payload, also when a frame write fails part-way.
C6_CompleteSequences ==
  \A wid \in Sent :
    LET S == FramesBy(wid)
    IN  \A k \in Pairs(S) :
          IF S[k].id = S[k + 1].id
            THEN Continues(S[k], S[k + 1])
            ELSE S[k].flag \in {COMPLETE, LAST} /\ S[k + 1].flag \in {COMPLETE, FIRST}

\* C6 amended: a worker writes the frames of one payload in encoder order, each
\* after the previous one was acknowledged, and writes no frame of its next
\* payload before the sequence is complete, unless a frame write failed or the
\* data channel was gone part-way: then the payload is rejected, its remaining
\* frames are never written, and the worker goes on with the next payload.
C6_SequencesUnlessFailed ==
  \A wid \in Sent :
    LET S == FramesBy(wid)
    IN  /\ \A k \in Pairs(S) :
             IF S[k].id = S[k + 1].id
               THEN Continues(S[k], S[k + 1]) /\ S[k].st = "ok"
               ELSE /\ S[k + 1].flag \in {COMPLETE, FIRST}
                    /\ \/ S[k].flag \in {COMPLETE, LAST}
                       \/ S[k].st = "failed" /\ handle[S[k].id] = "Write failed"
                       \/ S[k].st = "ok" /\ handle[S[k].id] = NullCharacteristic
        /\ \A p, q, r \in 1..Len(S) :
             p < q /\ q < r /\ S[p].id = S[r].id => S[q].id = S[p].id
        /\ \A k \in 1..Len(S) : FramesOf(S[k].id) = SelectSeq(S, LAMBDA f : f.id = S[k].id)

\* a worker went on to its next payload after the First frame of a fragmented
\* payload failed
C6_Witness ==
  \E wid \in Sent :
    LET S == FramesBy(wid)
    IN  \E k \in Pairs(S) :
          /\ S[k].id # S[k + 1].id
          /\ S[k].flag = FIRST
          /\ S[k].st = "failed"

\* C7: the failure of an item (timeout when shifted, write error, no data
\* channel) is reported to that item alone and does not stop the worker: in the
\* step that rejects it, every handle that is rejected is rejected on its own
\* account, the items shifted are the front of the queue, and the worker is
\* left sending the next item unless the queue is empty.
OnItsOwnAccount(j) ==
  /\ handle[j] = "pending"
  /\ \/ handle'[j] = "Write timeout" /\ dequeued'[j] > WRITE_TIMEOUT_MS
     \/ /\ handle'[j] = "Write failed"
        /\ \E k \in 1..Len(wire') : wire'[k].id = j /\ wire'[k].st = "failed"
     \/ \E w \in workers : w.item.id = j /\ w.pc = "thrown" /\ handle'[j] = w.error
C7_FailureIsLocal ==
  [][(\E i \in Sent : handle[i] = "pending" /\ handle'[i] \in Rejected) =>
       /\ \A j \in Sent :
            handle'[j] # handle[j] /\ handle'[j] \in Rejected => OnItsOwnAccount(j)
       /\ LET q == IF Len(requests') > Len(requests)
                     THEN Append(writeQueue,
                                 [id |-> Len(requests'), len |-> requests'[Len(requests')],
                                  timestamp |-> now])
                     ELSE writeQueue
          IN  /\ \E n \in 0..Len(q) : writeQueue' = SubSeq(q, n + 1, Len(q))
              /\ \/ q = <<>>
                 \/ /\ writeQueue' = <<>>
                    /\ \A k \in 1..Len(q) : dequeued'[q[k].id] >= 0
                 \/ \E w \in workers' \ workers, k \in 1..Len(q) :
                       /\ w.item.id = q[k].id
                       /\ writeQueue' = SubSeq(q, k + 1, Len(q))
                       /\ \A m \in 1..k : dequeued'[q[m].id] >= 0
     ]_vars

\* an item failed on a write, the item queued behind it had waited too long
\* and was rejected when shifted, and the item queued behind that one was
\* then written and resolved
C7_Witness ==
  \E i, j, k \in Sent :
    /\ i < j /\ j < k
    /\ handle[i] = "Write failed"
    /\ handle[j] = "Write timeout"
    /\ dequeued[j] > WRITE_TIMEOUT_MS
    /\ dequeued[k] >= 0
    /\ handle[k] = "resolved"

\* C8: every frame handed to the transport fits the payload size negotiated
\* for the connection: frame header + chunk <= mtu at the moment of the write.
C8_FrameFitsMtu ==
  [][\A k \in 1..Len(wire') :
       k > Len(wire) => wire'[k].header + wire'[k].size <= mtu]_vars

(***************************************************************************)
(* Claims about the codec                                                  *)
(***************************************************************************)
\* the frames written, as the bytes the receiver decodes
FramesWritten == [k \in 1..Len(written) |-> FromBase64(written[k])]

EncodingDone == encPc = "done"

\* C9: once every frame of a payload of 1..10 chunk sizes has been written and
\* has come back through handleNotification, in order, exactly one message
\* has been emitted and it carries the original payload (its first byte as
\* the message type, the rest as the message payload)
C9_RoundTrip ==
  (EncodingDone /\ notified = Len(written) /\ encLen >= 1) =>
     LET data == SerialData(encLen)
     IN  received = <<[type |-> data[1], payload |-> SubSeq(data, 2, encLen)]>>

RECURSIVE Chunks(_, _)
\* the chunks of frames k.. concatenated: a frame's body follows its header,
\* 4 bytes in a Complete or First frame and 2 bytes in the others
Chunks(frames, k) ==
  IF k > Len(frames) THEN <<>>
  ELSE LET fr == frames[k]
           hdr == IF fr[2] \in {COMPLETE, FIRST} THEN 4 ELSE 2
       IN  SubSeq(fr, hdr + 1, Len(fr)) \o Chunks(frames, k + 1)

CeilDiv(a, b) == (a + b - 1) \div b

\* C10: when the encoder has finished a payload of L bytes, it has written,
\* for L <= M, one Complete frame with a 4-byte header carrying L; otherwise
\* ceil(L/M) frames: a First (4-byte header carrying L, M bytes), Continue
\* frames of 2 + M bytes, and a Last of 2 + (1..M) bytes; and the chunks in
\* emission order are the payload
C10_EncoderShape ==
  EncodingDone =>
    LET L == encLen
        M == MAX_CHUNK_SIZE
        fs == FramesWritten
        n == Len(fs)
        LenField(fr) == fr[3] + 256 * fr[4]
    IN  /\ \A k \in 1..n : fs[k][1] = CATEGORY_ID
        /\ Chunks(fs, 1) = SerialData(L)
        /\ IF L <= M
             THEN /\ n = 1
                  /\ fs[1][2] = COMPLETE
                  /\ Len(fs[1]) = 4 + L
                  /\ LenField(fs[1]) = L
             ELSE /\ n = CeilDiv(L, M)
                  /\ fs[1][2] = FIRST
                  /\ Len(fs[1]) = 4 + M
                  /\ LenField(fs[1]) = L
                  /\ \A k \in 2..(n - 1) :
                        fs[k][2] = CONTINUE /\ Len(fs[k]) = 2 + M
                  /\ fs[n][2] = LAST
                  /\ Len(fs[n]) = 2 + (L - (n - 1) * M)
                  /\ Len(fs[n]) - 2 \in 1..M

\* a payload of 2M + 10 bytes has been encoded, in three frames
C10_Witness ==
  /\ EncodingDone
  /\ encLen = 2 * MAX_CHUNK_SIZE + 10
  /\ Len(written) = 3

(***************************************************************************)
(* Claims about the connection                                             *)
(***************************************************************************)
\* C11: no frame is handed to the transport unless the connection state is
\* Ready: in every step that writes a frame, the state is READY.
C11_WritesOnlyWhenReady ==
  [][Len(wire') > Len(wire) => connectionState = "READY"]_vars

\* C12: on a successful connect the state goes Connecting -> Connected ->
\* Ready: READY is entered from CONNECTED only.
C12_ReadyFromConnected ==
  [][connectionState # "READY" /\ connectionState' = "READY"
       => connectionState = "CONNECTED"]_vars

\* C13: when a step of a connect fails (link establishment, discovery,
\* priority request, data characteristic, notification subscription), the
\* connect call is rejected, the state is back at DISCONNECTED and the store's
\* error field holds the reason; nothing is retried, so this is the state
\* the store is left in.
C13_ConnectFailure ==
  (stepFailure # NULL /\ ConnectsUnderWay = {}) =>
     /\ connectResult = "rejected"
     /\ connectionState = "DISCONNECTED"
     /\ storeError = stepFailure

\* a disconnect has completed in this step: DeviceStore.disconnect has run
\* handleDisconnect, or the onDisconnected listener has been called
DisconnectCompletes ==
  \/ \E j \in DiscIds : discPc[j] = "cleaned" /\ discPc'[j] = "idle"
  \/ link = "up" /\ link' = "down" /\ discPc' = discPc
  \/ staleEvents' < staleEvents

\* C14: after an explicit disconnect or a disconnect event the state is
\* DISCONNECTED, the mtu is back at 23 and the peer identifier is cleared, in
\* the store and in the BLE service.
C14_DisconnectResets ==
  [][DisconnectCompletes =>
       /\ connectionState' = "DISCONNECTED"
       /\ storeMtu' = 23
       /\ connectedDeviceId' = NULL
       /\ mtu' = DEFAULT_MTU
       /\ device' = NULL]_vars

\* the user has disconnected from a ready connection that had been granted
\* the mtu asked for
C14_Witness ==
  /\ disconnects = 1
  /\ DisconnectsUnderWay = {}
  /\ connects = 1
  /\ connectResult = "resolved"
  /\ retMtu[1] = TARGET_MTU
  /\ connectionState = "DISCONNECTED"
  /\ storeMtu = 23
  /\ device = NULL

(***************************************************************************)
(* Claims about scanning                                                   *)
(***************************************************************************)
\* a BleService.startScan is resolved by its timer in this step
TimeoutReached == \E i \in ScanIds : scans[i].timer /\ scans'[i].pc = "resolved"

\* a DeviceStore.startScan that ended by its timeout returns in this step
TimeoutReturns == \E i \in ScanIds : scans[i].pc = "resolved" /\ scans'[i].pc = "done"

\* C15: a scan always ends: a discovery that has been started is stopped
\* later, and whenever the state is SCANNING it is later not SCANNING; the
\* state leaves SCANNING for DISCONNECTED unless the step is one of a connect;
\* the timer, when it fires, stops the discovery and lets the startScan call
\* return; and reaching the timeout records no failure.
C15_ScanEnds ==
  /\ (nativeScan # 0) ~> (nativeScan = 0)
  /\ (connectionState = "SCANNING") ~> (connectionState # "SCANNING")
  /\ [][/\ (connectionState = "SCANNING" /\ connectionState' # "SCANNING") =>
             (connectionState' = "DISCONNECTED" \/ connPc' # connPc)
        /\ TimeoutReached => nativeScan' = 0
        /\ (TimeoutReached \/ TimeoutReturns) => storeError' = storeError
        /\ TimeoutReturns => connectionState' # "SCANNING"
       ]_vars

VoiceTypes == {VOICE_START, VOICE_DATA, VOICE_END}

RxTypes == {msg.type : msg \in RxMessages}

\* the number of messages of a type passed to onMessageCallback
ReceivedOf(type) == Len(SelectSeq(received, LAMBDA m : m.type = type))

\* C16 as stated: the start, data and end messages received are exactly the
\* messages the voice pipeline consumed, none of them is passed to the
\* generic callback, and every message of another type is passed to the
\* generic callback exactly once.
C16_RoutedByType ==
  \A type \in RxTypes :
    IF type \in VoiceTypes
      THEN CopiesIn(type, voiceCalls) = CopiesIn(type, rxLog) /\ ReceivedOf(type) = 0
      ELSE CopiesIn(type, voiceCalls) = 0 /\ ReceivedOf(type) = CopiesIn(type, rxLog)

\* C16, amended: the start, data and end messages go to the voice pipeline;
\* the headphone-state messages are kept by the BLE service, which starts
\* loading the audio routing service for each and tells it the state at most
\* once per message; the messages of every other type go to the generic
\* callback; each message goes one of the three ways, once.
C16_RoutedByTypeOrHeadphones ==
  /\ \A type \in RxTypes :
       CASE type \in VoiceTypes ->
              CopiesIn(type, voiceCalls) = CopiesIn(type, rxLog) /\ ReceivedOf(type) = 0
         [] type = AUDIO_HEADPHONES ->
              /\ headphones.pending + headphones.calls <= CopiesIn(type, rxLog)
              /\ CopiesIn(type, voiceCalls) = 0 /\ ReceivedOf(type) = 0
         [] OTHER ->
              CopiesIn(type, voiceCalls) = 0 /\ ReceivedOf(type) = CopiesIn(type, rxLog)
  /\ BagCardinality(voiceCalls) + CopiesIn(AUDIO_HEADPHONES, rxLog) + Len(received)
       = BagCardinality(rxLog)

C16_Witness ==
  /\ CopiesIn(VOICE_END, rxLog) >= 1
  /\ CopiesIn(AUDIO_HEADPHONES, rxLog) >= 1
  /\ headphones.calls >= 1
  /\ CopiesIn(KEYPRESS, rxLog) >= 1
  /\ Len(received) >= 1

\* what a session has produced: result events, response callbacks, entries
\* to 'speaking' and lastResult assignments
Produced(log, sid) ==
  <<log[sid].result, log[sid].response, log[sid].speaking, log[sid].stored>>

\* C17: once a cancel called in a state other than idle has completed, no
\* step produces a result event, a response callback, a lastResult
\* assignment or an entry to 'speaking' for the session it cancelled, and
\* while no new session has been started the state stays idle.
C17_CancelDiscards ==
  [][\A t \in cancelled :
       t.from # "idle" =>
         /\ Produced(voiceLog', t.sid) = Produced(voiceLog, t.sid)
         /\ (t.sid = sessions /\ sessions' = sessions /\ voiceState = "idle")
              => voiceState' = "idle"]_vars

\* the sessions and states found by the cancel calls made so far, the one
\* under way included
CancelInvoked ==
  cancelled \cup (IF cancelPc = "stopping" /\ cancelTarget # NoTarget
                    THEN {cancelTarget} ELSE {})

\* C18: a session for which cancel was called while it was listening never
\* has a speechToText call, and when the cancel call completes the state
\* is idle and there is no current session.
C18_CancelWhileListening ==
  [][/\ \A t \in CancelInvoked' :
          t.from = "listening" => voiceLog'[t.sid].stt = 0
     /\ cancelled' # cancelled =>
          voiceState' = "idle" /\ currentSession' = NoSession]_vars

\* the packets are the frames 0, 1, 2, ... in order
InOrder(packets) == \A i \in 1..Len(packets) : packets[i] = i - 1

\* the step is a call of speechToText for the session
Transcribes(sid) == voiceLog'[sid].stt > voiceLog[sid].stt

\* a session of in-order frames is finalized with their count, no gaps and
\* ended set
C19_Finalized ==
  [][\A sid \in SessionIds :
       Transcribes(sid) /\ currentSession.id = sid /\ InOrder(currentSession.packets)
         => /\ lastClipInfo'.packetCount = Len(currentSession.packets)
            /\ lastClipInfo'.sequenceGaps = 0
            /\ currentSession'.ended]_vars

\* C19: the end message of a session of k in-order data frames finalizes it
\* with packetCount k, sequenceGaps 0 and ended set, and calls speechToText;
\* and no session has more than one speechToText call.
C19_TranscribedOnce ==
  [][\A sid \in SessionIds :
       /\ Transcribes(sid) /\ currentSession.id = sid /\ InOrder(currentSession.packets)
            => /\ lastClipInfo'.packetCount = Len(currentSession.packets)
               /\ lastClipInfo'.sequenceGaps = 0
               /\ currentSession'.ended
       /\ voiceLog'[sid].stt <= 1]_vars

\* C20: whenever the state is 'processing', the state is later 'idle' with
\* no current session, whichever way speechToText, getAiResponse and
\* speakResponse return.
C20_ProcessingEnds ==
  (voiceState = "processing") ~> (voiceState = "idle" /\ currentSession = NoSession)

\* a session went through transcription, response and playback, and the
\* pipeline is back to idle
C20_Witness ==
  /\ \E sid \in SessionIds : voiceLog[sid].stt = 1 /\ voiceLog[sid].stored = 1
  /\ finished >= 1
  /\ voiceState = "idle"
  /\ currentSession = NoSession

(***************************************************************************)
(* Claims about the data frames of a voice session                        *)
(***************************************************************************)
\* the sequence number expected when the i-th packet of a session arrives
ExpectedAt(packets, i) == IF i = 1 THEN 0 ELSE (packets[i - 1] + 1) % 65536

Distance(a, b) == IF a > b THEN a - b ELSE b - a

RECURSIVE GapSum(_, _)
\* the sum over the first n packets of the distance between the sequence
\* number and the one expected at arrival
GapSum(packets, n) ==
  IF n = 0 THEN 0
  ELSE GapSum(packets, n - 1) + Distance(packets[n], ExpectedAt(packets, n))

\* C21: in a listening session the gap count is the sum over the accepted
\* data messages of |sequence number - expectedSequence at arrival|, and
\* expectedSequence is the last sequence number plus one modulo 65536 (0
\* after the start message); the frames 0, 1, 3, 4 give gap count 1 and
\* expectedSequence 5, the frames 0, 1, 2, 3 give gap count 0.
C21_GapCount ==
  voiceState = "listening" =>
    LET packets == currentSession.packets
    IN  /\ sequenceGaps = GapSum(packets, Len(packets))
        /\ expectedSequence = ExpectedAt(packets, Len(packets) + 1)
        /\ packets = <<0, 1, 3, 4>> => sequenceGaps = 1 /\ expectedSequence = 5
        /\ packets = <<0, 1, 2, 3>> => sequenceGaps = 0

\* the frames 0, 1, 3, 4 have arrived in a second session
C21_Witness ==
  /\ sessions = 2
  /\ currentSession.packets = <<0, 1, 3, 4>>
  /\ sequenceGaps = 1
  /\ expectedSequence = 5

(***************************************************************************)
(* Claims about the pipeline of a voice session                           *)
(***************************************************************************)
\* a transcript that is not empty, not blank and not a placeholder in brackets
HasText(transcript) ==
  /\ Len(transcript) > 0
  /\ {i \in 1..Len(transcript) : transcript[i] \notin WhiteSpace} # {}
  /\ {i \in 1..Len(transcript) : transcript[i] = LeftBracket} = {}

\* the step enters 'speaking' on behalf of the session
EntersSpeaking(sid) == voiceLog'[sid].speaking > voiceLog[sid].speaking

\* C22: the state becomes 'speaking' only in a step of a pipeline whose
\* transcript has text and for which the response callback is called in that
\* step; and when speechToText returns an empty, blank or placeholder
\* transcript the pipeline ends there, the state is idle and 'speaking' is
\* not entered.
C22_SpeakingNeedsResponse ==
  [][/\ (voiceState' = "speaking" /\ voiceState # "speaking")
          => \E sid \in SessionIds : EntersSpeaking(sid)
     /\ \A sid \in SessionIds :
          EntersSpeaking(sid) =>
            /\ voiceLog'[sid].response > voiceLog[sid].response
            /\ \E p \in pipelines :
                 /\ p.sid = sid /\ p.pc = "getAiResponse" /\ HasText(p.transcript)
                 /\ [p EXCEPT !.pc = "speakResponse"] \in pipelines'
     /\ \A p \in pipelines, outcome \in SttOutcomes :
          (/\ SpeechToTextReturns(p, outcome)
           /\ ~outcome.throws
           /\ ~HasText(outcome.transcript))
            => /\ voiceState' = "idle"
               /\ \A q \in pipelines' : q.pid # p.pid
               /\ \A sid \in SessionIds : ~EntersSpeaking(sid)]_vars

\* one session ended with a transcript without text and never was speaking,
\* the next one is speaking
C22_Witness ==
  /\ voiceState = "speaking"
  /\ \E a, b \in SessionIds :
       /\ voiceLog[a].result = 1 /\ voiceLog[a].text = 0 /\ voiceLog[a].speaking = 0
       /\ voiceLog[b].text = 1 /\ voiceLog[b].response = 1 /\ voiceLog[b].speaking = 1

\* a data message is received in this step
DataReceived == CopiesIn(VOICE_DATA, rxLog') > CopiesIn(VOICE_DATA, rxLog)

\* C23: a data message received while the state is not 'listening' changes
\* neither the state, nor the session and its packets, nor expectedSequence,
\* the gap count, the sample and coded-frame buffers and the live
\* statistics, and no event is emitted.
C23_DroppedUnlessListening ==
  [][(DataReceived /\ voiceState # "listening")
       => UNCHANGED <<voiceState, currentSession, expectedSequence, sequenceGaps,
                      pcmBuffer, opusFrames, liveStats, emitted>>]_vars

\* data messages have been received before any session was started
C23_Witness ==
  /\ sessions = 0
  /\ voiceState = "idle"
  /\ CopiesIn(VOICE_DATA, rxLog) >= 2
  /\ CopiesIn(VOICE_DATA, voiceCalls) >= 2
  /\ emitted = EmptyBag
  /\ currentSession = NoSession

C25_SessionOutlivesOlderPipeline ==
  [][(voiceState = "listening" /\ currentSession # NoSession) =>
       \/ voiceState' = "listening" /\ currentSession'.id = currentSession.id
       \/ CopiesIn(VOICE_END, rxLog') > CopiesIn(VOICE_END, rxLog)
       \/ cancelPc = "stopping" /\ cancelPc' = "idle"
       \/ sessions' > sessions]_vars

(***************************************************************************)
(* Claims about calls and events that overlap                              *)
(***************************************************************************)
\* a disconnect of the user has completed under a connect call, and neither
\* a connect nor a scan has been requested since
DisconnectedOver ==
  \E t \in overtaken : t.connects = connects /\ t.scanCalls = scanCalls

\* C26: once an explicit disconnect issued during a connect has completed, the
\* state stays DISCONNECTED and no device is recorded as connected until a new
\* connect or scan is requested: the connect that was under way does not make
\* the store READY any more.
C26_DisconnectWins ==
  [][(DisconnectedOver /\ connects' = connects /\ scanCalls' = scanCalls) =>
       /\ connectionState' = "DISCONNECTED"
       /\ connectedDeviceId' = NULL]_vars

\* C27: the disconnect event of an earlier connection attempt leaves a later
\* established connection alone: with the store READY over a link that is up,
\* it clears neither the device, the data characteristic nor the write queue
\* of the BLE service and the store stays READY.
C27_StaleEventIgnored ==
  [][(staleEvents' < staleEvents /\ connectionState = "READY" /\ link = "up"
        /\ device # NULL) =>
       /\ device' = device
       /\ dataCharacteristic' = dataCharacteristic
       /\ writeQueue' = writeQueue
       /\ connectionState' = "READY"]_vars

\* the timer of scan i fires in this step
TimerFires(i) == scans[i].timer /\ ~scans'[i].timer /\ scans'[i].pc = "resolved"

\* the DeviceStore.startScan call i resumes in this step after its timeout
TimedOutScanResumes(i) == scans[i].pc = "resolved" /\ scans'[i].pc = "done"

\* C28: the timeout of a scan acts on that scan only: while a later scan is
\* discovering, the timer of an earlier scan neither stops the discovery nor
\* clears the result callback, and the earlier call does not move the state
\* from SCANNING to DISCONNECTED while the later scan is still running, its
\* own timeout not yet due.
C28_TimeoutOfOwnScan ==
  [][\A i \in ScanIds :
       /\ (TimerFires(i) /\ nativeScan \notin {0, i} /\ scans[nativeScan].due > now) =>
            /\ nativeScan' = nativeScan
            /\ onScanResultCallback' = onScanResultCallback
       /\ (TimedOutScanResumes(i) /\ connectionState = "SCANNING"
             /\ \E j \in ScanIds \ {i} : scans[j].pc = "scanning" /\ scans[j].due > now) =>
            connectionState' = "SCANNING"]_vars

\* C29: whenever the store is DISCONNECTED it records no connected device and
\* its mtu is the default 23, whatever the interleaving of the calls and of
\* the disconnect events.
C29_DisconnectedIsClean ==
  connectionState = "DISCONNECTED" => (connectedDeviceId = NULL /\ storeMtu = 23)

(***************************************************************************)
(* Claims about the write queue and its workers                            *)
(***************************************************************************)
\* C30: whenever an item waits in the write queue a processWriteQueue loop is
\* running, which takes the item when it goes round: no item is left queued
\* with no worker, whatever the sends, write completions, failures and
\* cleanups before.
C30_QueuedHasWorker ==
  writeQueue # <<>> => workers # {}

\* an item waits in the queue behind the write a worker awaits
C30_Witness ==
  /\ writeQueue # <<>>
  /\ isWriting
  /\ \E w \in workers : w.pc \in {"single", "fragment"}
====
